---------------------------- MODULE Spec2Model ----------------------------
(***************************************************************************)
(* A model of the JSON flattener / SEC-GIS reconciliation code of          *)
(* gisv2_app.py (and its copies in app.py and gis_app.py).                 *)
(*                                                                         *)
(* Python strings are sequences of one-character strings, so that          *)
(* str.lower, str.replace, str.strip and f-string concatenation are        *)
(* computed character by character.  A JSON value is a record [t, v]:      *)
(*   t = "null"  v = << >>                                                 *)
(*   t = "bool"  v \in BOOLEAN                                             *)
(*   t = "num"   v \in Int                                                 *)
(*   t = "str"   v = the characters                                        *)
(*   t = "arr"   v = the sequence of the elements                          *)
(*   t = "obj"   v = the sequence of <<key, value>> pairs, in insertion    *)
(*               order, keys distinct (a Python dict)                      *)
(***************************************************************************)
EXTENDS Integers, Sequences, FiniteSets, TLC

VARIABLES
    pc,          \* position of the caller: "start", "done"
    json_data,   \* argument of flatten_json_data / analyze_json_structure /
                 \* map_sec_gis_fields; the
                 \* argument list [val1, val2] of similarity_score
    result,      \* value returned by the last call (NoResult before / on error)
    prev_result, \* value returned by the call before the last one
    raised,      \* exception raised by the last call ("" when none)
    calls,       \* number of calls made so far
    field_name,         \* the ground-truth label being normalized / reconciled
    flattened_data,     \* compare_with_ground_truth: the flat map (a dict)
    ground_truth_df,    \* compare_with_ground_truth: the ground-truth table
    row_index,          \* compare_with_ground_truth: rows of the table consumed so far
    field_counters,     \* compare_with_ground_truth: occurrences per label (a dict)
    comparison_results, \* compare_with_ground_truth: the rows emitted so far;
                        \* create_comparison_summary: the rows of comparison_df
    st_errors           \* messages shown with st.error

call_vars == <<pc, json_data, result, prev_result, raised, calls>>
reconcile_vars == <<field_name, flattened_data, ground_truth_df, row_index,
                    field_counters, comparison_results, st_errors>>
vars == <<call_vars, reconcile_vars>>

\* No reconciliation is running.
ReconcileIdle ==
    /\ field_name = << >>
    /\ flattened_data = << >>
    /\ ground_truth_df = << >>
    /\ row_index = 0
    /\ field_counters = << >>
    /\ comparison_results = << >>
    /\ st_errors = << >>

(***************************************************************************)
(* Bounds of the model.                                                    *)
(***************************************************************************)
MaxFlattenNodes == 4   \* nodes (scalars, arrays, objects) of a document given to flatten
MaxTextLen == 3        \* length of the exhaustively enumerated JSON texts
MaxCalls == 2          \* successive calls on the same input
MaxAnalyzeNodes == 6   \* nodes of a one-key document given to analyze_json_structure
MaxAnalyzeWideNodes == 4 \* nodes of a two-key document given to analyze_json_structure
MaxLabelLen == 3       \* length of the exhaustively enumerated labels
MaxRows == 2           \* rows of a ground-truth table
MaxSimilarityLen == 2  \* length of the exhaustively enumerated texts given to similarity_score
MaxGisKeys == 2        \* keys of a document given to map_sec_gis_fields
MaxSummaryRows == 3    \* rows of a comparison table given to create_comparison_summary

(***************************************************************************)
(* JSON values.                                                            *)
(***************************************************************************)
JNull == [t |-> "null", v |-> << >>]
JBool(b) == [t |-> "bool", v |-> b]
JNum(n) == [t |-> "num", v |-> n]
JStr(s) == [t |-> "str", v |-> s]
JArr(items) == [t |-> "arr", v |-> items]
JObj(pairs) == [t |-> "obj", v |-> pairs]

IsScalar(x) == x.t \in {"null", "bool", "num", "str"}

NoResult == [t |-> "none", v |-> << >>]

(***************************************************************************)
(* Python dict: a sequence of <<key, value>> pairs with distinct keys, in  *)
(* insertion order.  Assigning to a key that is present replaces its value *)
(* in place; assigning to a new key appends.                               *)
(***************************************************************************)
dict_keys(d) == [i \in 1..Len(d) |-> d[i][1]]

dict_has(d, k) == \E i \in 1..Len(d) : d[i][1] = k

dict_get(d, k) == d[CHOOSE i \in 1..Len(d) : d[i][1] = k][2]

dict_set(d, k, x) ==
    IF dict_has(d, k)
    THEN [i \in 1..Len(d) |-> IF d[i][1] = k THEN <<k, x>> ELSE d[i]]
    ELSE Append(d, <<k, x>>)

\* Mutant of dict: the first item of a key wins, later ones are dropped.
RECURSIVE dict_FirstWins(_)
dict_FirstWins(items) ==
    IF items = << >> THEN << >>
    ELSE LET d == dict_FirstWins(SubSeq(items, 1, Len(items) - 1))
             it == items[Len(items)]
         IN  IF \E i \in 1..Len(d) : d[i][1] = it[1] THEN d ELSE Append(d, it)

\* Mutant of dict: the items are assigned last to first.
RECURSIVE dict_Reversed(_)
dict_Reversed(items) ==
    IF items = << >> THEN << >>
    ELSE LET d == dict_Reversed(Tail(items))
             it == Head(items)
         IN  IF \E i \in 1..Len(d) : d[i][1] = it[1] THEN d ELSE Append(d, it)

\* d.update(items): every item assigned in order.  A key keeps the place of
\* its first assignment and holds the value of its last one.
dict_update(d, items) ==
    LET all == d \o items
        is_first(i) == \A j \in 1..(i - 1) : all[j][1] # all[i][1]
        last(i) == CHOOSE j \in i..Len(all) :
                       /\ all[j][1] = all[i][1]
                       /\ \A m \in (j + 1)..Len(all) : all[m][1] # all[i][1]
        kept == SelectSeq([i \in 1..Len(all) |-> i], is_first)
    IN  [n \in 1..Len(kept) |-> <<all[kept[n]][1], all[last(kept[n])][2]>>]

\* dict(items)
dict(items) == dict_update(<< >>, items)

(***************************************************************************)
(* str(i) of a non-negative integer: its decimal digits.                   *)
(***************************************************************************)
Digits == <<"0", "1", "2", "3", "4", "5", "6", "7", "8", "9">>

RECURSIVE str_int(_)
str_int(i) ==
    IF i < 10 THEN <<Digits[i + 1]>>
    ELSE str_int(i \div 10) \o <<Digits[(i % 10) + 1]>>


(***************************************************************************)
(* flatten_json_data (gisv2_app.py:97-135; identical in app.py:96-134 and  *)
(* gis_app.py:96-134).                                                     *)
(***************************************************************************)
sep == <<"_">>

\* The literal "[]" stored for an empty list.
EmptyListText == JStr(<<"[", "]">>)

RECURSIVE flatten_dict(_, _)
RECURSIVE flatten_dict_loop(_, _, _)
RECURSIVE flatten_list_loop(_, _, _)

\* Mutant of flatten_dict_loop: the separator is written even under an empty parent.
RECURSIVE flatten_dict_loop_AlwaysSep(_, _, _)
flatten_dict_loop_AlwaysSep(pairs, parent_key, i) ==
    IF i > Len(pairs) THEN << >>
    ELSE flatten_dict(pairs[i][2], parent_key \o sep \o pairs[i][1])
         \o flatten_dict_loop_AlwaysSep(pairs, parent_key, i + 1)

\* for key, value in obj.items(): items.extend(flatten_dict(value, new_key, sep).items())
\* (the pairs from the i-th on)
flatten_dict_loop(pairs, parent_key, i) ==
    IF i > Len(pairs) THEN << >>
    ELSE LET key == pairs[i][1]
             value == pairs[i][2]
             new_key == IF parent_key # << >> THEN parent_key \o sep \o key ELSE key
         IN  flatten_dict(value, new_key) \o flatten_dict_loop(pairs, parent_key, i + 1)

\* Mutant of flatten_list_loop: every element is appended as it is, composite or not.
RECURSIVE flatten_list_loop_NoRecursion(_, _, _)
flatten_list_loop_NoRecursion(elems, parent_key, i) ==
    IF i >= Len(elems) THEN << >>
    ELSE << <<parent_key \o sep \o str_int(i), elems[i + 1]>> >>
         \o flatten_list_loop_NoRecursion(elems, parent_key, i + 1)

\* for i, item in enumerate(obj): ...   (the elements from 0-based index i on)
flatten_list_loop(elems, parent_key, i) ==
    IF i >= Len(elems) THEN << >>
    ELSE LET item == elems[i + 1]
             new_key == parent_key \o sep \o str_int(i)
             got == IF item.t \in {"obj", "arr"}
                    THEN flatten_dict(item, new_key)
                    ELSE << <<new_key, item>> >>
         IN  got \o flatten_list_loop(elems, parent_key, i + 1)

\* Mutant of flatten_dict: an empty dict is stored as "{}", as an empty list is as "[]".
flatten_dict_EmptyObjectEntry(obj, parent_key) ==
    LET items ==
            IF obj.t = "obj"
            THEN IF Len(obj.v) = 0
                 THEN << <<parent_key, JStr(<<"{", "}">>)>> >>
                 ELSE flatten_dict_loop(obj.v, parent_key, 1)
            ELSE IF obj.t = "arr"
                 THEN IF Len(obj.v) = 0
                      THEN << <<parent_key, EmptyListText>> >>
                      ELSE flatten_list_loop(obj.v, parent_key, 0)
                 ELSE << <<parent_key, obj>> >>
    IN  dict(items)

flatten_dict(obj, parent_key) ==
    LET items ==
            IF obj.t = "obj" THEN flatten_dict_loop(obj.v, parent_key, 1)
            ELSE IF obj.t = "arr"
                 THEN IF Len(obj.v) = 0
                      THEN << <<parent_key, EmptyListText>> >>
                      ELSE flatten_list_loop(obj.v, parent_key, 0)
                 ELSE << <<parent_key, obj>> >>
    IN  dict(items)

(***************************************************************************)
(* json.loads on a text: the JSON grammar for texts written with spaces,   *)
(* double-quoted strings without escapes, unsigned integers, the literals  *)
(* null / true / false, arrays and objects.  A repeated key of an object   *)
(* keeps its first position and its last value, as a Python dict does.     *)
(* The result is [ok, val, end]; ok = FALSE stands for json.JSONDecodeError*)
(***************************************************************************)
DecodeFail == [ok |-> FALSE, val |-> NoResult, end |-> 0]
Decoded(x, e) == [ok |-> TRUE, val |-> x, end |-> e]

DigitSet == {Digits[i] : i \in 1..10}
DigitValue(c) == (CHOOSE i \in 1..10 : Digits[i] = c) - 1

RECURSIVE skip_ws(_, _)
skip_ws(s, i) == IF i <= Len(s) /\ s[i] = " " THEN skip_ws(s, i + 1) ELSE i

\* index of the closing quote of a string whose body starts at i, 0 if none
RECURSIVE scan_string(_, _)
scan_string(s, i) ==
    IF i > Len(s) THEN 0
    ELSE IF s[i] = "\"" THEN i
    ELSE scan_string(s, i + 1)

\* index after the last digit of the run of digits starting at i
RECURSIVE scan_digits(_, _)
scan_digits(s, i) == IF i <= Len(s) /\ s[i] \in DigitSet THEN scan_digits(s, i + 1) ELSE i

RECURSIVE int_of(_)
int_of(ds) == IF ds = << >> THEN 0
              ELSE 10 * int_of(SubSeq(ds, 1, Len(ds) - 1)) + DigitValue(ds[Len(ds)])

has_literal(s, i, lit) == i + Len(lit) - 1 <= Len(s) /\ SubSeq(s, i, i + Len(lit) - 1) = lit

RECURSIVE parse_value(_, _)
RECURSIVE parse_elements(_, _, _)
RECURSIVE parse_members(_, _, _)

parse_value(s, i) ==
    IF i > Len(s) THEN DecodeFail
    ELSE IF s[i] = "\"" THEN
        LET j == scan_string(s, i + 1)
        IN  IF j = 0 THEN DecodeFail ELSE Decoded(JStr(SubSeq(s, i + 1, j - 1)), j + 1)
    ELSE IF s[i] = "[" THEN
        LET j == skip_ws(s, i + 1)
        IN  IF j <= Len(s) /\ s[j] = "]" THEN Decoded(JArr(<< >>), j + 1)
            ELSE parse_elements(s, j, << >>)
    ELSE IF s[i] = "{" THEN
        LET j == skip_ws(s, i + 1)
        IN  IF j <= Len(s) /\ s[j] = "}" THEN Decoded(JObj(<< >>), j + 1)
            ELSE parse_members(s, j, << >>)
    ELSE IF s[i] = "0" THEN Decoded(JNum(0), i + 1)
    ELSE IF s[i] \in DigitSet THEN
        LET j == scan_digits(s, i)
        IN  Decoded(JNum(int_of(SubSeq(s, i, j - 1))), j)
    ELSE IF has_literal(s, i, <<"n", "u", "l", "l">>) THEN Decoded(JNull, i + 4)
    ELSE IF has_literal(s, i, <<"t", "r", "u", "e">>) THEN Decoded(JBool(TRUE), i + 4)
    ELSE IF has_literal(s, i, <<"f", "a", "l", "s", "e">>) THEN Decoded(JBool(FALSE), i + 5)
    ELSE DecodeFail

\* the elements of an array from the one at i on; acc holds those before
parse_elements(s, i, acc) ==
    LET r == parse_value(s, i)
        j == skip_ws(s, r.end)
    IN  IF ~r.ok \/ j > Len(s) THEN DecodeFail
        ELSE IF s[j] = "," THEN parse_elements(s, skip_ws(s, j + 1), Append(acc, r.val))
        ELSE IF s[j] = "]" THEN Decoded(JArr(Append(acc, r.val)), j + 1)
        ELSE DecodeFail

\* the members of an object from the one at i on; acc holds those before
parse_members(s, i, acc) ==
    IF i > Len(s) \/ s[i] # "\"" THEN DecodeFail
    ELSE LET q == scan_string(s, i + 1)
             c == skip_ws(s, q + 1)
         IN  IF q = 0 \/ c > Len(s) \/ s[c] # ":" THEN DecodeFail
             ELSE LET key == SubSeq(s, i + 1, q - 1)
                      r == parse_value(s, skip_ws(s, c + 1))
                      j == skip_ws(s, r.end)
                  IN  IF ~r.ok \/ j > Len(s) THEN DecodeFail
                      ELSE IF s[j] = ","
                           THEN parse_members(s, skip_ws(s, j + 1), dict_set(acc, key, r.val))
                      ELSE IF s[j] = "}"
                           THEN Decoded(JObj(dict_set(acc, key, r.val)), j + 1)
                      ELSE DecodeFail

json_loads(s) ==
    LET r == parse_value(s, skip_ws(s, 1))
    IN  IF ~r.ok THEN DecodeFail
        ELSE IF skip_ws(s, r.end) <= Len(s) THEN DecodeFail   \* "Extra data"
        ELSE r

\* Mutant of flatten_json_data: a text that does not decode yields an empty map.
flatten_json_data_Swallow(data_in) ==
    IF data_in.t = "str"
    THEN LET r == json_loads(data_in.v)
         IN  IF ~r.ok
             THEN [raised |-> "", value |-> JObj(<< >>)]
             ELSE [raised |-> "", value |-> JObj(flatten_dict(r.val, << >>))]
    ELSE [raised |-> "", value |-> JObj(flatten_dict(data_in, << >>))]

\* The outcome of flatten_json_data(json_data): [raised, value], the value a
\* dict (an "obj" record holding the flat pairs) or NoResult when it raised.
flatten_json_data(data_in) ==
    IF data_in.t = "str"
    THEN LET r == json_loads(data_in.v)
         IN  IF ~r.ok
             THEN [raised |-> "ValueError", value |-> NoResult]
             ELSE [raised |-> "", value |-> JObj(flatten_dict(r.val, << >>))]
    ELSE [raised |-> "", value |-> JObj(flatten_dict(data_in, << >>))]

(***************************************************************************)
(* Bounded inputs: every document of at most n nodes over a pool of        *)
(* scalars and a pool of object keys, and JSON texts.                      *)
(***************************************************************************)
RECURSIVE DocsOfSize(_, _, _)
RECURSIVE ArrItems(_, _, _)
RECURSIVE ObjItems(_, _, _, _)

DocsOfSize(n, S, K) ==
    (IF n = 1 THEN S ELSE {})
    \cup {JArr(s) : s \in ArrItems(n - 1, S, K)}
    \cup {JObj(p) : p \in ObjItems(n - 1, S, K, {})}

ArrItems(n, S, K) ==
    IF n = 0 THEN {<< >>}
    ELSE UNION { {<<d>> \o s : d \in DocsOfSize(k, S, K), s \in ArrItems(n - k, S, K)}
                 : k \in 1..n }

ObjItems(n, S, K, used) ==
    IF n = 0 THEN {<< >>}
    ELSE UNION { UNION { {<< <<key, d>> >> \o s :
                             d \in DocsOfSize(k, S, K),
                             s \in ObjItems(n - k, S, K, used \cup {key})}
                         : key \in K \ used }
                 : k \in 1..n }

DocsUpTo(n, S, K) == UNION {DocsOfSize(k, S, K) : k \in 1..n}

RECURSIVE TextsOfLen(_, _)
TextsOfLen(n, A) ==
    IF n = 0 THEN {<< >>}
    ELSE {<<c>> \o s : c \in A, s \in TextsOfLen(n - 1, A)}

\* Three families of documents: keys that collide through an object path
\* ("a_b" against "a" -> "b"), keys that collide through an array index
\* ("a_0" against "a" -> [..]), and the kinds of scalar.
Numbers == {JNum(1), JNum(2)}
ScalarKinds == {JNull, JBool(TRUE), JStr(<<"x">>), JNum(1)}
ObjectPathKeys == {<<"a">>, <<"b">>, <<"a", "_", "b">>}
ArrayPathKeys == {<<"a">>, <<"a", "_", "0">>}
FlattenDocs ==
    DocsUpTo(MaxFlattenNodes, Numbers, ObjectPathKeys)
    \cup DocsUpTo(MaxFlattenNodes, Numbers, ArrayPathKeys)
    \cup DocsUpTo(MaxFlattenNodes, ScalarKinds, {<<"a">>})

JsonAlphabet == {"[", "]", "{", "}", "\"", ":", ",", "1", "0", "a", " "}
\* Longer texts: objects with members, a repeated key, the literals, and
\* texts broken by a trailing comma, a missing colon, a missing bracket.
SampleTexts ==
    { <<"{", "\"", "a", "\"", ":", "1", "}">>,
      <<"{", "\"", "a", "\"", ":", "[", "1", ",", "1", "0", "]", "}">>,
      <<"{", "\"", "a", "\"", ":", "1", ",", "\"", "a", "\"", ":", "[", "]", "}">>,
      <<"{", "\"", "a", "\"", ":", "{", "\"", "b", "\"", ":", "n", "u", "l", "l", "}", "}">>,
      <<"[", "t", "r", "u", "e", ",", " ", "f", "a", "l", "s", "e", "]">>,
      <<"{", "\"", "a", "\"", ":", "1", ",", "}">>,
      <<"{", "\"", "a", "\"", " ", "1", "}">>,
      <<"{", "\"", "a", "\"", ":", "[", "1", "}">>,
      <<"{", "a", ":", "1", "}">>,
      <<"n", "u", "l">> }
FlattenTexts == UNION {TextsOfLen(n, JsonAlphabet) : n \in 0..MaxTextLen} \cup SampleTexts

FlattenInputs == FlattenDocs \cup {JStr(s) : s \in FlattenTexts}

(***************************************************************************)
(* Calls of flatten_json_data.                                             *)
(***************************************************************************)
InitFlatten ==
    /\ ReconcileIdle
    /\ pc = "start"
    /\ json_data \in FlattenInputs
    /\ result = NoResult
    /\ prev_result = NoResult
    /\ raised = ""
    /\ calls = 0

Flatten ==
    /\ calls < MaxCalls
    /\ LET r == flatten_json_data(json_data)
       IN  /\ result' = r.value
           /\ raised' = r.raised
    /\ prev_result' = result
    /\ calls' = calls + 1
    /\ pc' = "done"
    /\ UNCHANGED <<json_data, reconcile_vars>>

NextFlatten == Flatten

SpecFlatten == InitFlatten /\ [][NextFlatten]_vars


(***************************************************************************)
(* Reference for the flattener: the leaves of a document in depth-first    *)
(* document order, each with the path the key-synthesis rule gives it.     *)
(* Nothing is merged here: a path may occur more than once.                *)
(***************************************************************************)
RefPathOfKey(P, k) == IF P = << >> THEN k ELSE P \o <<"_">> \o k
RefPathOfIndex(P, i) == P \o <<"_">> \o str_int(i)

RECURSIVE Leaves(_, _)
RECURSIVE LeavesOfChildren(_, _, _)

\* children from the n-th on of the composite x at path P
LeavesOfChildren(x, P, n) ==
    IF n > Len(x.v) THEN << >>
    ELSE (IF x.t = "obj"
          THEN Leaves(x.v[n][2], RefPathOfKey(P, x.v[n][1]))
          ELSE Leaves(x.v[n], RefPathOfIndex(P, n - 1)))
         \o LeavesOfChildren(x, P, n + 1)

Leaves(x, P) ==
    IF x.t = "arr" /\ x.v = << >> THEN << <<P, JStr(<<"[", "]">>)>> >>
    ELSE IF x.t \in {"arr", "obj"} THEN LeavesOfChildren(x, P, 1)
    ELSE << <<P, x>> >>

\* The document the last call flattened (the decoded text, for a text).
FlattenedDoc == IF json_data.t = "str" THEN json_loads(json_data.v).val ELSE json_data

FlattenDone == pc = "done" /\ raised = ""

RefLeaves == Leaves(FlattenedDoc, << >>)

\* The pairs of the returned map, in order.
FlatPairs == result.v

LastLeafAt(ls, k) == ls[CHOOSE i \in 1..Len(ls) :
                          ls[i][1] = k /\ \A j \in (i + 1)..Len(ls) : ls[j][1] # k][2]

Collides(ls, k) == \E i, j \in 1..Len(ls) : i < j /\ ls[i][1] = k /\ ls[j][1] = k

\* Documents named by the claims.
Doc_a_b_1 == JObj(<< << <<"a">>, JObj(<< << <<"b">>, JNum(1)>> >>)>> >>)
Doc_a_empty == JObj(<< << <<"a">>, JArr(<< >>)>> >>)
Doc_a_1_2 == JObj(<< << <<"a">>, JArr(<<JNum(1), JNum(2)>>)>> >>)
Doc_collide_obj == JObj(<< << <<"a", "_", "b">>, JNum(1)>>,
                          << <<"a">>, JObj(<< << <<"b">>, JNum(2)>> >>)>> >>)
Doc_collide_arr == JObj(<< << <<"a">>, JArr(<<JNum(1)>>)>>,
                          << <<"a", "_", "0">>, JNum(2)>> >>)

\* C1: every value of the map returned by flatten_json_data is a scalar
\* (null, bool, number or string); no list and no dict is ever a value.
C1_ValuesAreScalars ==
    FlattenDone => \A i \in 1..Len(FlatPairs) : IsScalar(FlatPairs[i][2])

\* A nested document (an array inside an object) has been flattened.
C1_Witness ==
    /\ FlattenDone
    /\ json_data.t = "obj"
    /\ \E i \in 1..Len(json_data.v) :
          /\ json_data.v[i][2].t = "arr"
          /\ \E j \in 1..Len(json_data.v[i][2].v) : json_data.v[i][2].v[j].t = "obj"
    /\ Len(FlatPairs) > 0

\* C2: the keys of the result are exactly the paths of the reference rule
\* (P_k, or k under the empty path; P_i for the i-th element; P -> "[]" for an
\* empty array), a key that one leaf alone produces holds that leaf's value,
\* and the three documents of the specification flatten as it says.
C2_KeySynthesis ==
    FlattenDone =>
        /\ {FlatPairs[i][1] : i \in 1..Len(FlatPairs)} = {RefLeaves[i][1] : i \in 1..Len(RefLeaves)}
        /\ \A i \in 1..Len(FlatPairs) :
              ~Collides(RefLeaves, FlatPairs[i][1])
                  => \E j \in 1..Len(RefLeaves) : RefLeaves[j] = FlatPairs[i]
        /\ (json_data = Doc_a_b_1 => FlatPairs = << << <<"a", "_", "b">>, JNum(1)>> >>)
        /\ (json_data = Doc_a_empty => FlatPairs = << << <<"a">>, JStr(<<"[", "]">>)>> >>)
        /\ (json_data = Doc_a_1_2 => FlatPairs = << << <<"a", "_", "0">>, JNum(1)>>,
                                                << <<"a", "_", "1">>, JNum(2)>> >>)

C2_Witness == FlattenDone /\ json_data = Doc_a_1_2 /\ Len(FlatPairs) = 2

\* C3: when several leaves synthesize the same key, the result holds exactly
\* one entry for that key and its value is that of the leaf visited last.
C3_LastWriteWins ==
    FlattenDone =>
        \A n \in 1..Len(RefLeaves) :
            LET k == RefLeaves[n][1]
            IN  Collides(RefLeaves, k) =>
                    /\ Cardinality({i \in 1..Len(FlatPairs) : FlatPairs[i][1] = k}) = 1
                    /\ dict_get(FlatPairs, k) = LastLeafAt(RefLeaves, k)

C3_Witness ==
    /\ FlattenDone
    /\ json_data \in {Doc_collide_obj, Doc_collide_arr}
    /\ Len(FlatPairs) = 1
    /\ FlatPairs[1][2] = JNum(2)

\* C4 as stated: a pre-parsed structure (dict, list or scalar) never raises.
C4_Original_ParsedNeverRaises ==
    (pc = "done" /\ json_data \in FlattenDocs) => raised = ""

\* C4 (amended): a string argument is always decoded as JSON text: when it is
\* not valid JSON the call raises ValueError and returns no map, otherwise the
\* decoded document is flattened; an argument that is not a string (dict,
\* list, null, bool, number) never raises and always yields a map.
C4_DecodeErrorOnlyForStrings ==
    pc = "done" =>
        /\ (json_data.t = "str" /\ ~json_loads(json_data.v).ok)
              => (raised = "ValueError" /\ result = NoResult)
        /\ (json_data.t = "str" /\ json_loads(json_data.v).ok)
              => (raised = "" /\ result.t = "obj")
        /\ json_data.t # "str" => (raised = "" /\ result.t = "obj")

C4_Witness ==
    /\ pc = "done"
    /\ json_data.t = "str"
    /\ Len(json_data.v) > 0
    /\ json_data.v[1] = "{"
    /\ raised = "ValueError"
    /\ result = NoResult

\* C5: the pairs of the result are in depth-first document order of the
\* leaves, a key standing where it was first inserted, and a second call on
\* the same document returns the same pairs in the same order.
C5_DocumentOrder ==
    FlattenDone =>
        /\ \A i, j \in 1..Len(FlatPairs) :
              i < j =>
                  LET fi == CHOOSE n \in 1..Len(RefLeaves) :
                                /\ RefLeaves[n][1] = FlatPairs[i][1]
                                /\ \A m \in 1..(n - 1) : RefLeaves[m][1] # FlatPairs[i][1]
                      fj == CHOOSE n \in 1..Len(RefLeaves) :
                                /\ RefLeaves[n][1] = FlatPairs[j][1]
                                /\ \A m \in 1..(n - 1) : RefLeaves[m][1] # FlatPairs[j][1]
                  IN  fi < fj
        /\ calls >= 2 => prev_result = result

C5_Witness ==
    /\ FlattenDone
    /\ calls = 2
    /\ Len(FlatPairs) >= 3
    /\ prev_result = result


(***************************************************************************)
(* analyze_json_structure (gisv2_app.py:141-182; identical in app.py and   *)
(* gis_app.py).  An analysis is the dict                                   *)
(*   [arrays, nested_objects, primitive_fields].                           *)
(***************************************************************************)
EmptyAnalysis == [arrays |-> << >>, nested_objects |-> << >>, primitive_fields |-> 0]

\* Mutant of first_items: every element of the array is analysed.
first_items_All(value) == value

\* value[:1]
first_items(value) == SubSeq(value, 1, IF Len(value) < 1 THEN Len(value) ELSE 1)

\* analysis['arrays'].extend(...); analysis['nested_objects'].extend(...);
\* analysis['primitive_fields'] += ...
merge_analysis(analysis, sub_analysis) ==
    [arrays |-> analysis.arrays \o sub_analysis.arrays,
     nested_objects |-> analysis.nested_objects \o sub_analysis.nested_objects,
     primitive_fields |-> analysis.primitive_fields + sub_analysis.primitive_fields]

RECURSIVE analyze_recursive(_, _)
RECURSIVE analyze_items_loop(_, _, _, _)
RECURSIVE analyze_dict_loop(_, _, _, _)

\* Mutant of analyze_items_loop: a sampled element that is a primitive counts as a field.
RECURSIVE analyze_items_loop_CountPrimitive(_, _, _, _)
analyze_items_loop_CountPrimitive(items, current_path, j, analysis) ==
    IF j > Len(items) THEN analysis
    ELSE LET sub == IF IsScalar(items[j])
                    THEN [EmptyAnalysis EXCEPT !.primitive_fields = 1]
                    ELSE analyze_recursive(items[j], current_path \o <<"[", "0", "]">>)
         IN  analyze_items_loop_CountPrimitive(items, current_path, j + 1,
                                               merge_analysis(analysis, sub))

\* for item in value[:1]: sub_analysis = analyze_recursive(item, f"{current_path}[0]"); merge
analyze_items_loop(items, current_path, j, analysis) ==
    IF j > Len(items) THEN analysis
    ELSE analyze_items_loop(items, current_path, j + 1,
             merge_analysis(analysis,
                            analyze_recursive(items[j], current_path \o <<"[", "0", "]">>)))

\* for key, value in obj.items(): ...   (the pairs from the i-th on)
analyze_dict_loop(pairs, path, i, analysis) ==
    IF i > Len(pairs) THEN analysis
    ELSE LET key == pairs[i][1]
             value == pairs[i][2]
             current_path == IF path # << >> THEN path \o <<".">> \o key ELSE key
             after ==
                 IF value.t = "arr" THEN
                     analyze_items_loop(first_items(value.v), current_path, 1,
                         [analysis EXCEPT !.arrays =
                              Append(@, [path |-> current_path,
                                         length |-> Len(value.v),
                                         type |-> "array"])])
                 ELSE IF value.t = "obj" THEN
                     merge_analysis(
                         [analysis EXCEPT !.nested_objects = Append(@, current_path)],
                         analyze_recursive(value, current_path))
                 ELSE [analysis EXCEPT !.primitive_fields = @ + 1]
         IN  analyze_dict_loop(pairs, path, i + 1, after)

analyze_recursive(obj, path) ==
    IF obj.t = "obj" THEN analyze_dict_loop(obj.v, path, 1, EmptyAnalysis)
    ELSE EmptyAnalysis

\* The outcome of analyze_json_structure(json_data): [raised, value]; the
\* decode error of json.loads is not caught.
analyze_json_structure(data_in) ==
    IF data_in.t = "str"
    THEN LET r == json_loads(data_in.v)
         IN  IF ~r.ok
             THEN [raised |-> "JSONDecodeError", value |-> NoResult]
             ELSE [raised |-> "", value |-> [t |-> "analysis", v |-> analyze_recursive(r.val, << >>)]]
    ELSE [raised |-> "", value |-> [t |-> "analysis", v |-> analyze_recursive(data_in, << >>)]]

\* {"arr": [{"x": 1}, {"x": 2}]}
Doc_arr_x == JObj(<< << <<"a", "r", "r">>,
                        JArr(<< JObj(<< << <<"x">>, JNum(1)>> >>),
                                JObj(<< << <<"x">>, JNum(2)>> >>) >>)>> >>)
\* {"a": [[{"b": [1]}]], "b": {"a": [1, {"b": 2}]}}
Doc_deep == JObj(<< << <<"a">>, JArr(<< JArr(<< JObj(<< << <<"b">>, JArr(<<JNum(1)>>)>> >>) >>) >>)>>,
                   << <<"b">>, JObj(<< << <<"a">>,
                          JArr(<< JNum(1), JObj(<< << <<"b">>, JNum(2)>> >>) >>)>> >>)>> >>)

AnalyzeInputs ==
    DocsUpTo(MaxAnalyzeNodes, {JNum(1)}, {<<"a">>})
    \cup DocsUpTo(MaxAnalyzeWideNodes, {JNum(1), JStr(<<"x">>)}, {<<"a">>, <<"b">>})
    \cup {Doc_arr_x, Doc_a_1_2, Doc_deep}
    \cup {JStr(s) : s \in SampleTexts}

InitAnalyze ==
    /\ ReconcileIdle
    /\ pc = "start"
    /\ json_data \in AnalyzeInputs
    /\ result = NoResult
    /\ prev_result = NoResult
    /\ raised = ""
    /\ calls = 0

Analyze ==
    /\ calls < MaxCalls
    /\ LET r == analyze_json_structure(json_data)
       IN  /\ result' = r.value
           /\ raised' = r.raised
    /\ prev_result' = result
    /\ calls' = calls + 1
    /\ pc' = "done"
    /\ UNCHANGED <<json_data, reconcile_vars>>

NextAnalyze == Analyze

SpecAnalyze == InitAnalyze /\ [][NextAnalyze]_vars


(***************************************************************************)
(* Reference for the analyzer: the nodes of a document as positions (the   *)
(* steps from the root, a step being an object key or an array index), in  *)
(* depth-first document order, and the positions the sampling reaches.     *)
(***************************************************************************)
KeyStep(k) == [kind |-> "key", key |-> k, idx |-> 0]
IdxStep(i) == [kind |-> "idx", key |-> << >>, idx |-> i]

RECURSIVE Positions(_, _)
RECURSIVE PositionsFrom(_, _, _)

\* the nodes below the children of x from the n-th on, x standing at position p
PositionsFrom(x, p, n) ==
    IF n > Len(x.v) THEN << >>
    ELSE LET q == Append(p, IF x.t = "obj" THEN KeyStep(x.v[n][1]) ELSE IdxStep(n - 1))
             child == IF x.t = "obj" THEN x.v[n][2] ELSE x.v[n]
         IN  <<q>> \o Positions(child, q) \o PositionsFrom(x, p, n + 1)

Positions(x, p) == IF x.t \in {"arr", "obj"} THEN PositionsFrom(x, p, 1) ELSE << >>

RECURSIVE ValueAt(_, _)
ValueAt(x, p) ==
    IF p = << >> THEN x
    ELSE ValueAt(IF Head(p).kind = "key" THEN dict_get(x.v, Head(p).key)
                 ELSE x.v[Head(p).idx + 1],
                 Tail(p))

\* Written path of a position: keys joined by ".", an index written [i].
RECURSIVE PathText(_)
PathText(p) ==
    IF p = << >> THEN << >>
    ELSE LET pre == PathText(SubSeq(p, 1, Len(p) - 1))
             st == p[Len(p)]
         IN  IF st.kind = "key"
             THEN (IF pre = << >> THEN st.key ELSE pre \o <<".">> \o st.key)
             ELSE pre \o <<"[">> \o str_int(st.idx) \o <<"]">>

LastIsKey(p) == p[Len(p)].kind = "key"

\* Reached through object keys and the first element of an array that is the
\* value of an object key.
Sampled(p) ==
    \A n \in 1..Len(p) :
        p[n].kind = "idx" => (p[n].idx = 0 /\ n > 1 /\ p[n - 1].kind = "key")

\* Reached through object keys and first elements of arrays.
FirstElementsOnly(p) == \A n \in 1..Len(p) : p[n].kind = "idx" => p[n].idx = 0

\* The document with every array cut down to its first element.
RECURSIVE FirstOnly(_)
FirstOnly(x) ==
    IF x.t = "arr"
    THEN JArr([i \in 1..(IF Len(x.v) = 0 THEN 0 ELSE 1) |-> FirstOnly(x.v[i])])
    ELSE IF x.t = "obj"
    THEN JObj([i \in 1..Len(x.v) |-> <<x.v[i][1], FirstOnly(x.v[i][2])>>])
    ELSE x

AnalyzedDoc == IF json_data.t = "str" THEN json_loads(json_data.v).val ELSE json_data

AnalyzeDone == pc = "done" /\ raised = "" /\ result.t = "analysis"

AllPositions == Positions(AnalyzedDoc, << >>)

SampledArrays ==
    SelectSeq(AllPositions,
              LAMBDA p : Sampled(p) /\ LastIsKey(p) /\ ValueAt(AnalyzedDoc, p).t = "arr")

PathsOf(arrays) == [i \in 1..Len(arrays) |-> arrays[i].path]

C7_Original_CountsSampledElements ==
    AnalyzeDone =>
        result.v.primitive_fields =
            Len(SelectSeq(AllPositions,
                          LAMBDA p : FirstElementsOnly(p) /\ IsScalar(ValueAt(AnalyzedDoc, p))))

\* C7 (amended): primitive_fields is the number of primitive values of object
\* keys reached through object keys and first elements; a primitive that is
\* an element of an array is not counted, so {"a": [1, 2]} counts 0.
C7_CountsObjectFieldsOnly ==
    AnalyzeDone =>
        /\ result.v.primitive_fields =
              Len(SelectSeq(AllPositions,
                            LAMBDA p : Sampled(p) /\ LastIsKey(p)
                                       /\ IsScalar(ValueAt(AnalyzedDoc, p))))
        /\ json_data = Doc_a_1_2 => result.v.primitive_fields = 0

C7_Witness ==
    /\ AnalyzeDone
    /\ json_data = Doc_deep
    /\ result.v.primitive_fields = 0
    /\ Len(result.v.arrays) = 2


(***************************************************************************)
(* Python str methods, character by character.  The one character U+2265   *)
(* (greater-than-or-equal sign) is written "U+2265".                       *)
(***************************************************************************)
GreaterEqualSign == "U+2265"

UpperCase == <<"A", "B", "C", "D", "E", "F", "G", "H", "I", "J", "K", "L", "M",
               "N", "O", "P", "Q", "R", "S", "T", "U", "V", "W", "X", "Y", "Z">>
LowerCase == <<"a", "b", "c", "d", "e", "f", "g", "h", "i", "j", "k", "l", "m",
               "n", "o", "p", "q", "r", "s", "t", "u", "v", "w", "x", "y", "z">>

lower_char(c) ==
    IF \E i \in 1..26 : UpperCase[i] = c
    THEN LowerCase[CHOOSE i \in 1..26 : UpperCase[i] = c]
    ELSE c

\* s.lower()
str_lower(s) == [i \in 1..Len(s) |-> lower_char(s[i])]

\* s.replace(old, new) for a one-character old; new is a string (possibly empty).
\* Every occurrence is replaced, in the left half of s and in the right half.
RECURSIVE str_replace(_, _, _)
str_replace(s, old, new) ==
    IF Len(s) = 0 THEN << >>
    ELSE IF Len(s) = 1 THEN (IF s[1] = old THEN new ELSE s)
    ELSE LET half == Len(s) \div 2
         IN  str_replace(SubSeq(s, 1, half), old, new)
             \o str_replace(SubSeq(s, half + 1, Len(s)), old, new)

\* s.startswith(prefix)
str_startswith(s, prefix) ==
    Len(prefix) <= Len(s) /\ SubSeq(s, 1, Len(prefix)) = prefix

(***************************************************************************)
(* The candidate keys of a label: create_field_transforms of               *)
(* test_field_mappings.py:6-27, the same code as gisv2_app.py:408-418 and  *)
(* 590-595 without the override table.                                     *)
(***************************************************************************)
\* Mutant of most_comprehensive_transform: the full stop is kept.
most_comprehensive_transform_KeepsDot(name) ==
    str_replace(
     str_replace(
      str_replace(
       str_replace(
        str_replace(
         str_replace(
          str_replace(str_lower(name), " ", <<"_">>),
          "/", <<"_">>),
         "-", <<"_">>),
        "(", << >>),
       ")", << >>),
      GreaterEqualSign, << >>),
     "'", << >>)

\* field_name.lower().replace(' ', '_').replace('/', '_').replace('-', '_')
\*     .replace('(', '').replace(')', '').replace('>=', '').replace('.', '').replace("'", '')
most_comprehensive_transform(name) ==
    str_replace(
     str_replace(
      str_replace(
       str_replace(
        str_replace(
         str_replace(
          str_replace(
           str_replace(str_lower(name), " ", <<"_">>),
           "/", <<"_">>),
          "-", <<"_">>),
         "(", << >>),
        ")", << >>),
       GreaterEqualSign, << >>),
      ".", << >>),
     "'", << >>)

\* field_name.replace(' ', '_').replace('/', '_').replace('-', '_')
simple_transforms(name) ==
    str_replace(str_replace(str_replace(name, " ", <<"_">>), "/", <<"_">>), "-", <<"_">>)

\* field_name.lower().replace(' ', '_')
basic_snake_case(name) == str_replace(str_lower(name), " ", <<"_">>)

\* field_name.replace(' ', '').lower()
remove_all_spaces(name) == str_lower(str_replace(name, " ", << >>))

base_transforms_of(name) ==
    << most_comprehensive_transform(name),
       simple_transforms(name),
       basic_snake_case(name),
       remove_all_spaces(name) >>

\* Mutant of remove_duplicates: nothing is removed.
remove_duplicates_Keep(keys) == keys

\* seen = set(); [x for x in possible_keys if not (x in seen or seen.add(x))]
RECURSIVE remove_duplicates_from(_, _, _)
remove_duplicates_from(keys, i, kept) ==
    IF i > Len(keys) THEN kept
    ELSE remove_duplicates_from(keys, i + 1,
             IF \E j \in 1..Len(kept) : kept[j] = keys[i] THEN kept ELSE Append(kept, keys[i]))

remove_duplicates(keys) == remove_duplicates_from(keys, 1, << >>)

create_field_transforms(name) ==
    remove_duplicates(<<name>> \o base_transforms_of(name))


(***************************************************************************)
(* The tables of compare_with_ground_truth: the override table             *)
(* field_mappings (gisv2_app.py:421-582) and single_entry_fields           *)
(* (gisv2_app.py:612-647).                                                 *)
(***************************************************************************)
\* field_mappings = {...}: the (label, key stem) items of the dict literal, in the order
\* written; a label written twice is written with the same stem both times.
field_mappings_items ==
    <<
      \* 423: 'Document Type'
      << <<"D", "o", "c", "u", "m", "e", "n", "t", " ", "T", "y", "p", "e">>,
         <<"d", "o", "c", "u", "m", "e", "n", "t", "_", "t", "y", "p", "e">> >>,
      \* 424: 'For the year'
      << <<"F", "o", "r", " ", "t", "h", "e", " ", "y", "e", "a", "r">>,
         <<"f", "o", "r", "_", "t", "h", "e", "_", "y", "e", "a", "r">> >>,
      \* 425: 'Corporate Name'
      << <<"C", "o", "r", "p", "o", "r", "a", "t", "e", " ", "N", "a", "m", "e">>,
         <<"b", "u", "s", "i", "n", "e", "s", "s", "_", "t", "r", "a", "d", "e", "_", "n", "a",
            "m", "e">> >>,
      \* 426: 'Business/Trade Name'
      << <<"B", "u", "s", "i", "n", "e", "s", "s", "/", "T", "r", "a", "d", "e", " ", "N", "a",
            "m", "e">>,
         <<"b", "u", "s", "i", "n", "e", "s", "s", "_", "t", "r", "a", "d", "e", "_", "n", "a",
            "m", "e">> >>,
      \* 427: 'Date Registered'
      << <<"D", "a", "t", "e", " ", "R", "e", "g", "i", "s", "t", "e", "r", "e", "d">>,
         <<"d", "a", "t", "e", "_", "r", "e", "g", "i", "s", "t", "e", "r", "e", "d">> >>,
      \* 428: 'Fiscal Year End'
      << <<"F", "i", "s", "c", "a", "l", " ", "Y", "e", "a", "r", " ", "E", "n", "d">>,
         <<"f", "i", "s", "c", "a", "l", "_", "y", "e", "a", "r", "_", "e", "n", "d">> >>,
      \* 429: 'SEC Registration Number'
      << <<"S", "E", "C", " ", "R", "e", "g", "i", "s", "t", "r", "a", "t", "i", "o", "n", " ",
            "N", "u", "m", "b", "e", "r">>,
         <<"s", "e", "c", "_", "r", "e", "g", "i", "s", "t", "r", "a", "t", "i", "o", "n", "_",
            "n", "u", "m", "b", "e", "r">> >>,
      \* 430: 'Corporate TIN'
      << <<"C", "o", "r", "p", "o", "r", "a", "t", "e", " ", "T", "I", "N">>,
         <<"c", "o", "r", "p", "o", "r", "a", "t", "e", "_", "t", "i", "n">> >>,
      \* 431: 'Website/URL'
      << <<"W", "e", "b", "s", "i", "t", "e", "/", "U", "R", "L">>,
         <<"w", "e", "b", "s", "i", "t", "e", "_", "u", "r", "l">> >>,
      \* 432: 'Principal Office Address'
      << <<"P", "r", "i", "n", "c", "i", "p", "a", "l", " ", "O", "f", "f", "i", "c", "e", " ",
            "A", "d", "d", "r", "e", "s", "s">>,
         <<"p", "r", "i", "n", "c", "i", "p", "a", "l", "_", "o", "f", "f", "i", "c", "e", "_",
            "a", "d", "d", "r", "e", "s", "s">> >>,
      \* 433: 'Business Address'
      << <<"B", "u", "s", "i", "n", "e", "s", "s", " ", "A", "d", "d", "r", "e", "s", "s">>,
         <<"b", "u", "s", "i", "n", "e", "s", "s", "_", "a", "d", "d", "r", "e", "s", "s">> >>,
      \* 434: 'Official e-mail address'
      << <<"O", "f", "f", "i", "c", "i", "a", "l", " ", "e", "-", "m", "a", "i", "l", " ", "a",
            "d", "d", "r", "e", "s", "s">>,
         <<"o", "f", "f", "i", "c", "i", "a", "l", "_", "e", "m", "a", "i", "l">> >>,
      \* 435: 'Alternate Email Address'
      << <<"A", "l", "t", "e", "r", "n", "a", "t", "e", " ", "E", "m", "a", "i", "l", " ", "A",
            "d", "d", "r", "e", "s", "s">>,
         <<"a", "l", "t", "e", "r", "n", "a", "t", "e", "_", "e", "m", "a", "i", "l">> >>,
      \* 436: 'Official Mobile Number'
      << <<"O", "f", "f", "i", "c", "i", "a", "l", " ", "M", "o", "b", "i", "l", "e", " ", "N",
            "u", "m", "b", "e", "r">>,
         <<"o", "f", "f", "i", "c", "i", "a", "l", "_", "m", "o", "b", "i", "l", "e">> >>,
      \* 437: 'Alternate Mobile Number'
      << <<"A", "l", "t", "e", "r", "n", "a", "t", "e", " ", "M", "o", "b", "i", "l", "e", " ",
            "N", "u", "m", "b", "e", "r">>,
         <<"a", "l", "t", "e", "r", "n", "a", "t", "e", "_", "m", "o", "b", "i", "l", "e">> >>,
      \* 438: 'Primary Purpose/Industry'
      << <<"P", "r", "i", "m", "a", "r", "y", " ", "P", "u", "r", "p", "o", "s", "e", "/", "I",
            "n", "d", "u", "s", "t", "r", "y">>,
         <<"p", "r", "i", "m", "a", "r", "y", "_", "p", "u", "r", "p", "o", "s", "e", "_", "i",
            "n", "d", "u", "s", "t", "r", "y">> >>,
      \* 439: 'Industry Classification'
      << <<"I", "n", "d", "u", "s", "t", "r", "y", " ", "C", "l", "a", "s", "s", "i", "f", "i",
            "c", "a", "t", "i", "o", "n">>,
         <<"i", "n", "d", "u", "s", "t", "r", "y", "_", "c", "l", "a", "s", "s", "i", "f", "i",
            "c", "a", "t", "i", "o", "n">> >>,
      \* 440: 'Geographical Code'
      << <<"G", "e", "o", "g", "r", "a", "p", "h", "i", "c", "a", "l", " ", "C", "o", "d", "e">>,
         <<"g", "e", "o", "g", "r", "a", "p", "h", "i", "c", "a", "l", "_", "c", "o", "d", "e">> >>,
      \* 443: 'Parent Company Name'
      << <<"P", "a", "r", "e", "n", "t", " ", "C", "o", "m", "p", "a", "n", "y", " ", "N", "a",
            "m", "e">>,
         <<"p", "a", "r", "e", "n", "t", "_", "c", "o", "m", "p", "a", "n", "y", "_", "n", "a",
            "m", "e">> >>,
      \* 444: 'Parent Company SEC Reg. No.'
      << <<"P", "a", "r", "e", "n", "t", " ", "C", "o", "m", "p", "a", "n", "y", " ", "S", "E",
            "C", " ", "R", "e", "g", ".", " ", "N", "o", ".">>,
         <<"p", "a", "r", "e", "n", "t", "_", "c", "o", "m", "p", "a", "n", "y", "_", "s", "e",
            "c", "_", "r", "e", "g", "_", "n", "o">> >>,
      \* 445: 'Parent Company Address'
      << <<"P", "a", "r", "e", "n", "t", " ", "C", "o", "m", "p", "a", "n", "y", " ", "A", "d",
            "d", "r", "e", "s", "s">>,
         <<"p", "a", "r", "e", "n", "t", "_", "c", "o", "m", "p", "a", "n", "y", "_", "a", "d",
            "d", "r", "e", "s", "s">> >>,
      \* 446: 'Subsidiary/Affiliate'
      << <<"S", "u", "b", "s", "i", "d", "i", "a", "r", "y", "/", "A", "f", "f", "i", "l", "i",
            "a", "t", "e">>,
         <<"s", "u", "b", "s", "i", "d", "i", "a", "r", "y", "_", "a", "f", "f", "i", "l", "i",
            "a", "t", "e">> >>,
      \* 447: 'Subsidiary/Affiliate SEC Reg. No.'
      << <<"S", "u", "b", "s", "i", "d", "i", "a", "r", "y", "/", "A", "f", "f", "i", "l", "i",
            "a", "t", "e", " ", "S", "E", "C", " ", "R", "e", "g", ".", " ", "N", "o", ".">>,
         <<"s", "u", "b", "s", "i", "d", "i", "a", "r", "y", "_", "a", "f", "f", "i", "l", "i",
            "a", "t", "e", "_", "s", "e", "c", "_", "r", "e", "g", "_", "n", "o">> >>,
      \* 448: 'Subsidiary/Affiliate Address'
      << <<"S", "u", "b", "s", "i", "d", "i", "a", "r", "y", "/", "A", "f", "f", "i", "l", "i",
            "a", "t", "e", " ", "A", "d", "d", "r", "e", "s", "s">>,
         <<"s", "u", "b", "s", "i", "d", "i", "a", "r", "y", "_", "a", "f", "f", "i", "l", "i",
            "a", "t", "e", "_", "a", "d", "d", "r", "e", "s", "s">> >>,
      \* 451: 'External Auditor'
      << <<"E", "x", "t", "e", "r", "n", "a", "l", " ", "A", "u", "d", "i", "t", "o", "r">>,
         <<"e", "x", "t", "e", "r", "n", "a", "l", "_", "a", "u", "d", "i", "t", "o", "r">> >>,
      \* 452: 'Auditor SEC Accreditation Number'
      << <<"A", "u", "d", "i", "t", "o", "r", " ", "S", "E", "C", " ", "A", "c", "c", "r", "e",
            "d", "i", "t", "a", "t", "i", "o", "n", " ", "N", "u", "m", "b", "e", "r">>,
         <<"a", "u", "d", "i", "t", "o", "r", "_", "s", "e", "c", "_", "a", "c", "c", "r", "e",
            "d", "i", "t", "a", "t", "i", "o", "n", "_", "n", "u", "m", "b", "e", "r">> >>,
      \* 455: 'Covered Person (AML)'
      << <<"C", "o", "v", "e", "r", "e", "d", " ", "P", "e", "r", "s", "o", "n", " ", "(", "A",
            "M", "L", ")">>,
         <<"c", "o", "v", "e", "r", "e", "d", "_", "p", "e", "r", "s", "o", "n", "_", "a", "m",
            "l">> >>,
      \* 456: 'AMLA Category 1'
      << <<"A", "M", "L", "A", " ", "C", "a", "t", "e", "g", "o", "r", "y", " ", "1">>,
         <<"a", "m", "l", "a", "_", "c", "a", "t", "e", "g", "o", "r", "y", "_", "1">> >>,
      \* 457: 'AMLA Category 2'
      << <<"A", "M", "L", "A", " ", "C", "a", "t", "e", "g", "o", "r", "y", " ", "2">>,
         <<"a", "m", "l", "a", "_", "c", "a", "t", "e", "g", "o", "r", "y", "_", "2">> >>,
      \* 458: 'AMLA Category 3'
      << <<"A", "M", "L", "A", " ", "C", "a", "t", "e", "g", "o", "r", "y", " ", "3">>,
         <<"a", "m", "l", "a", "_", "c", "a", "t", "e", "g", "o", "r", "y", "_", "3">> >>,
      \* 459: 'AMLA Category 4'
      << <<"A", "M", "L", "A", " ", "C", "a", "t", "e", "g", "o", "r", "y", " ", "4">>,
         <<"a", "m", "l", "a", "_", "c", "a", "t", "e", "g", "o", "r", "y", "_", "4">> >>,
      \* 460: 'AMLA Category 5'
      << <<"A", "M", "L", "A", " ", "C", "a", "t", "e", "g", "o", "r", "y", " ", "5">>,
         <<"a", "m", "l", "a", "_", "c", "a", "t", "e", "g", "o", "r", "y", "_", "5">> >>,
      \* 461: 'AMLA Category 6'
      << <<"A", "M", "L", "A", " ", "C", "a", "t", "e", "g", "o", "r", "y", " ", "6">>,
         <<"a", "m", "l", "a", "_", "c", "a", "t", "e", "g", "o", "r", "y", "_", "6">> >>,
      \* 462: 'AMLA Category 7'
      << <<"A", "M", "L", "A", " ", "C", "a", "t", "e", "g", "o", "r", "y", " ", "7">>,
         <<"a", "m", "l", "a", "_", "c", "a", "t", "e", "g", "o", "r", "y", "_", "7">> >>,
      \* 463: 'AMLA Category 8'
      << <<"A", "M", "L", "A", " ", "C", "a", "t", "e", "g", "o", "r", "y", " ", "8">>,
         <<"a", "m", "l", "a", "_", "c", "a", "t", "e", "g", "o", "r", "y", "_", "8">> >>,
      \* 464: 'AMLA Compliance Status'
      << <<"A", "M", "L", "A", " ", "C", "o", "m", "p", "l", "i", "a", "n", "c", "e", " ", "S",
            "t", "a", "t", "u", "s">>,
         <<"a", "m", "l", "a", "_", "c", "o", "m", "p", "l", "i", "a", "n", "c", "e", "_", "s",
            "t", "a", "t", "u", "s">> >>,
      \* 467: 'Auth Capital Stock - Type of Shares 1'
      << <<"A", "u", "t", "h", " ", "C", "a", "p", "i", "t", "a", "l", " ", "S", "t", "o", "c",
            "k", " ", "-", " ", "T", "y", "p", "e", " ", "o", "f", " ", "S", "h", "a", "r", "e", "s",
            " ", "1">>,
         <<"a", "u", "t", "h", "_", "c", "a", "p", "i", "t", "a", "l", "_", "s", "t", "o", "c",
            "k", "_", "t", "y", "p", "e", "_", "o", "f", "_", "s", "h", "a", "r", "e", "s", "_",
            "1">> >>,
      \* 468: 'Auth Capital Stock - Number of Shares 1'
      << <<"A", "u", "t", "h", " ", "C", "a", "p", "i", "t", "a", "l", " ", "S", "t", "o", "c",
            "k", " ", "-", " ", "N", "u", "m", "b", "e", "r", " ", "o", "f", " ", "S", "h", "a", "r",
            "e", "s", " ", "1">>,
         <<"a", "u", "t", "h", "_", "c", "a", "p", "i", "t", "a", "l", "_", "s", "t", "o", "c",
            "k", "_", "n", "u", "m", "b", "e", "r", "_", "o", "f", "_", "s", "h", "a", "r", "e", "s",
            "_", "1">> >>,
      \* 469: 'Auth Capital Stock - Par / Stated Value 1'
      << <<"A", "u", "t", "h", " ", "C", "a", "p", "i", "t", "a", "l", " ", "S", "t", "o", "c",
            "k", " ", "-", " ", "P", "a", "r", " ", "/", " ", "S", "t", "a", "t", "e", "d", " ", "V",
            "a", "l", "u", "e", " ", "1">>,
         <<"a", "u", "t", "h", "_", "c", "a", "p", "i", "t", "a", "l", "_", "s", "t", "o", "c",
            "k", "_", "p", "a", "r", "_", "s", "t", "a", "t", "e", "d", "_", "v", "a", "l", "u", "e",
            "_", "1">> >>,
      \* 470: 'Auth Capital Stock - Amount (PhP) 1'
      << <<"A", "u", "t", "h", " ", "C", "a", "p", "i", "t", "a", "l", " ", "S", "t", "o", "c",
            "k", " ", "-", " ", "A", "m", "o", "u", "n", "t", " ", "(", "P", "h", "P", ")", " ",
            "1">>,
         <<"a", "u", "t", "h", "_", "c", "a", "p", "i", "t", "a", "l", "_", "s", "t", "o", "c",
            "k", "_", "a", "m", "o", "u", "n", "t", "_", "p", "h", "p", "_", "1">> >>,
      \* 471: 'Authorized Capital Stock'
      << <<"A", "u", "t", "h", "o", "r", "i", "z", "e", "d", " ", "C", "a", "p", "i", "t", "a",
            "l", " ", "S", "t", "o", "c", "k">>,
         <<"a", "u", "t", "h", "_", "c", "a", "p", "i", "t", "a", "l", "_", "s", "t", "o", "c",
            "k", "_", "a", "m", "o", "u", "n", "t", "_", "p", "h", "p", "_", "1">> >>,
      \* 474: 'Filipino Subscribed Capital - Type of Shares 1'
      << <<"F", "i", "l", "i", "p", "i", "n", "o", " ", "S", "u", "b", "s", "c", "r", "i", "b",
            "e", "d", " ", "C", "a", "p", "i", "t", "a", "l", " ", "-", " ", "T", "y", "p", "e", " ",
            "o", "f", " ", "S", "h", "a", "r", "e", "s", " ", "1">>,
         <<"f", "i", "l", "i", "p", "i", "n", "o", "_", "s", "u", "b", "s", "c", "r", "i", "b",
            "e", "d", "_", "c", "a", "p", "i", "t", "a", "l", "_", "t", "y", "p", "e", "_", "o", "f",
            "_", "s", "h", "a", "r", "e", "s", "_", "1">> >>,
      \* 475: 'Filipino Subscribed Capital - Number of Shares 1'
      << <<"F", "i", "l", "i", "p", "i", "n", "o", " ", "S", "u", "b", "s", "c", "r", "i", "b",
            "e", "d", " ", "C", "a", "p", "i", "t", "a", "l", " ", "-", " ", "N", "u", "m", "b", "e",
            "r", " ", "o", "f", " ", "S", "h", "a", "r", "e", "s", " ", "1">>,
         <<"f", "i", "l", "i", "p", "i", "n", "o", "_", "s", "u", "b", "s", "c", "r", "i", "b",
            "e", "d", "_", "c", "a", "p", "i", "t", "a", "l", "_", "n", "u", "m", "b", "e", "r", "_",
            "o", "f", "_", "s", "h", "a", "r", "e", "s", "_", "1">> >>,
      \* 476: 'Filipino Subscribed Capital - Par / Stated Value 1'
      << <<"F", "i", "l", "i", "p", "i", "n", "o", " ", "S", "u", "b", "s", "c", "r", "i", "b",
            "e", "d", " ", "C", "a", "p", "i", "t", "a", "l", " ", "-", " ", "P", "a", "r", " ", "/",
            " ", "S", "t", "a", "t", "e", "d", " ", "V", "a", "l", "u", "e", " ", "1">>,
         <<"f", "i", "l", "i", "p", "i", "n", "o", "_", "s", "u", "b", "s", "c", "r", "i", "b",
            "e", "d", "_", "c", "a", "p", "i", "t", "a", "l", "_", "p", "a", "r", "_", "s", "t", "a",
            "t", "e", "d", "_", "v", "a", "l", "u", "e", "_", "1">> >>,
      \* 477: 'Filipino Subscribed Capital - Amount (PhP) 1'
      << <<"F", "i", "l", "i", "p", "i", "n", "o", " ", "S", "u", "b", "s", "c", "r", "i", "b",
            "e", "d", " ", "C", "a", "p", "i", "t", "a", "l", " ", "-", " ", "A", "m", "o", "u", "n",
            "t", " ", "(", "P", "h", "P", ")", " ", "1">>,
         <<"f", "i", "l", "i", "p", "i", "n", "o", "_", "s", "u", "b", "s", "c", "r", "i", "b",
            "e", "d", "_", "c", "a", "p", "i", "t", "a", "l", "_", "a", "m", "o", "u", "n", "t", "_",
            "p", "h", "p", "_", "1">> >>,
      \* 480: 'Foreign Subscribed Capital - Type of Shares 1'
      << <<"F", "o", "r", "e", "i", "g", "n", " ", "S", "u", "b", "s", "c", "r", "i", "b", "e",
            "d", " ", "C", "a", "p", "i", "t", "a", "l", " ", "-", " ", "T", "y", "p", "e", " ", "o",
            "f", " ", "S", "h", "a", "r", "e", "s", " ", "1">>,
         <<"f", "o", "r", "e", "i", "g", "n", "_", "s", "u", "b", "s", "c", "r", "i", "b", "e",
            "d", "_", "c", "a", "p", "i", "t", "a", "l", "_", "t", "y", "p", "e", "_", "o", "f", "_",
            "s", "h", "a", "r", "e", "s", "_", "1">> >>,
      \* 481: 'Foreign Subscribed Capital - Number of Shares 1'
      << <<"F", "o", "r", "e", "i", "g", "n", " ", "S", "u", "b", "s", "c", "r", "i", "b", "e",
            "d", " ", "C", "a", "p", "i", "t", "a", "l", " ", "-", " ", "N", "u", "m", "b", "e", "r",
            " ", "o", "f", " ", "S", "h", "a", "r", "e", "s", " ", "1">>,
         <<"f", "o", "r", "e", "i", "g", "n", "_", "s", "u", "b", "s", "c", "r", "i", "b", "e",
            "d", "_", "c", "a", "p", "i", "t", "a", "l", "_", "n", "u", "m", "b", "e", "r", "_", "o",
            "f", "_", "s", "h", "a", "r", "e", "s", "_", "1">> >>,
      \* 482: 'Foreign Subscribed Capital - Par / Stated Value 1'
      << <<"F", "o", "r", "e", "i", "g", "n", " ", "S", "u", "b", "s", "c", "r", "i", "b", "e",
            "d", " ", "C", "a", "p", "i", "t", "a", "l", " ", "-", " ", "P", "a", "r", " ", "/", " ",
            "S", "t", "a", "t", "e", "d", " ", "V", "a", "l", "u", "e", " ", "1">>,
         <<"f", "o", "r", "e", "i", "g", "n", "_", "s", "u", "b", "s", "c", "r", "i", "b", "e",
            "d", "_", "c", "a", "p", "i", "t", "a", "l", "_", "p", "a", "r", "_", "s", "t", "a", "t",
            "e", "d", "_", "v", "a", "l", "u", "e", "_", "1">> >>,
      \* 483: 'Foreign Subscribed Capital - Amount (PhP) 1'
      << <<"F", "o", "r", "e", "i", "g", "n", " ", "S", "u", "b", "s", "c", "r", "i", "b", "e",
            "d", " ", "C", "a", "p", "i", "t", "a", "l", " ", "-", " ", "A", "m", "o", "u", "n", "t",
            " ", "(", "P", "h", "P", ")", " ", "1">>,
         <<"f", "o", "r", "e", "i", "g", "n", "_", "s", "u", "b", "s", "c", "r", "i", "b", "e",
            "d", "_", "c", "a", "p", "i", "t", "a", "l", "_", "a", "m", "o", "u", "n", "t", "_", "p",
            "h", "p", "_", "1">> >>,
      \* 486: 'Filipino Paid-Up Capital - Type of Shares 1'
      << <<"F", "i", "l", "i", "p", "i", "n", "o", " ", "P", "a", "i", "d", "-", "U", "p", " ",
            "C", "a", "p", "i", "t", "a", "l", " ", "-", " ", "T", "y", "p", "e", " ", "o", "f", " ",
            "S", "h", "a", "r", "e", "s", " ", "1">>,
         <<"f", "i", "l", "i", "p", "i", "n", "o", "_", "p", "a", "i", "d", "_", "u", "p", "_",
            "c", "a", "p", "i", "t", "a", "l", "_", "t", "y", "p", "e", "_", "o", "f", "_", "s", "h",
            "a", "r", "e", "s", "_", "1">> >>,
      \* 487: 'Filipino Paid-up Capital Number of Shares 1'
      << <<"F", "i", "l", "i", "p", "i", "n", "o", " ", "P", "a", "i", "d", "-", "u", "p", " ",
            "C", "a", "p", "i", "t", "a", "l", " ", "N", "u", "m", "b", "e", "r", " ", "o", "f", " ",
            "S", "h", "a", "r", "e", "s", " ", "1">>,
         <<"f", "i", "l", "i", "p", "i", "n", "o", "_", "p", "a", "i", "d", "_", "u", "p", "_",
            "c", "a", "p", "i", "t", "a", "l", "_", "n", "u", "m", "b", "e", "r", "_", "o", "f", "_",
            "s", "h", "a", "r", "e", "s", "_", "1">> >>,
      \* 488: 'Filipino Paid-Up Capital - Par / Stated Value 1'
      << <<"F", "i", "l", "i", "p", "i", "n", "o", " ", "P", "a", "i", "d", "-", "U", "p", " ",
            "C", "a", "p", "i", "t", "a", "l", " ", "-", " ", "P", "a", "r", " ", "/", " ", "S", "t",
            "a", "t", "e", "d", " ", "V", "a", "l", "u", "e", " ", "1">>,
         <<"f", "i", "l", "i", "p", "i", "n", "o", "_", "p", "a", "i", "d", "_", "u", "p", "_",
            "c", "a", "p", "i", "t", "a", "l", "_", "p", "a", "r", "_", "s", "t", "a", "t", "e", "d",
            "_", "v", "a", "l", "u", "e", "_", "1">> >>,
      \* 489: 'Filipino Paid-Up Capital - Amount (PhP) 1'
      << <<"F", "i", "l", "i", "p", "i", "n", "o", " ", "P", "a", "i", "d", "-", "U", "p", " ",
            "C", "a", "p", "i", "t", "a", "l", " ", "-", " ", "A", "m", "o", "u", "n", "t", " ", "(",
            "P", "h", "P", ")", " ", "1">>,
         <<"f", "i", "l", "i", "p", "i", "n", "o", "_", "p", "a", "i", "d", "_", "u", "p", "_",
            "c", "a", "p", "i", "t", "a", "l", "_", "a", "m", "o", "u", "n", "t", "_", "p", "h", "p",
            "_", "1">> >>,
      \* 492: 'Foreign Paid-Up Capital - Type of Shares 1'
      << <<"F", "o", "r", "e", "i", "g", "n", " ", "P", "a", "i", "d", "-", "U", "p", " ", "C",
            "a", "p", "i", "t", "a", "l", " ", "-", " ", "T", "y", "p", "e", " ", "o", "f", " ", "S",
            "h", "a", "r", "e", "s", " ", "1">>,
         <<"f", "o", "r", "e", "i", "g", "n", "_", "p", "a", "i", "d", "_", "u", "p", "_", "c",
            "a", "p", "i", "t", "a", "l", "_", "t", "y", "p", "e", "_", "o", "f", "_", "s", "h", "a",
            "r", "e", "s", "_", "1">> >>,
      \* 493: 'Foreign Paid-up Capital Number of Shares 1'
      << <<"F", "o", "r", "e", "i", "g", "n", " ", "P", "a", "i", "d", "-", "u", "p", " ", "C",
            "a", "p", "i", "t", "a", "l", " ", "N", "u", "m", "b", "e", "r", " ", "o", "f", " ", "S",
            "h", "a", "r", "e", "s", " ", "1">>,
         <<"f", "o", "r", "e", "i", "g", "n", "_", "p", "a", "i", "d", "_", "u", "p", "_", "c",
            "a", "p", "i", "t", "a", "l", "_", "n", "u", "m", "b", "e", "r", "_", "o", "f", "_", "s",
            "h", "a", "r", "e", "s", "_", "1">> >>,
      \* 494: 'Foreign Paid-Up Capital - Par / Stated Value 1'
      << <<"F", "o", "r", "e", "i", "g", "n", " ", "P", "a", "i", "d", "-", "U", "p", " ", "C",
            "a", "p", "i", "t", "a", "l", " ", "-", " ", "P", "a", "r", " ", "/", " ", "S", "t", "a",
            "t", "e", "d", " ", "V", "a", "l", "u", "e", " ", "1">>,
         <<"f", "o", "r", "e", "i", "g", "n", "_", "p", "a", "i", "d", "_", "u", "p", "_", "c",
            "a", "p", "i", "t", "a", "l", "_", "p", "a", "r", "_", "s", "t", "a", "t", "e", "d", "_",
            "v", "a", "l", "u", "e", "_", "1">> >>,
      \* 495: 'Foreign Paid-Up Capital - Amount (PhP) 1'
      << <<"F", "o", "r", "e", "i", "g", "n", " ", "P", "a", "i", "d", "-", "U", "p", " ", "C",
            "a", "p", "i", "t", "a", "l", " ", "-", " ", "A", "m", "o", "u", "n", "t", " ", "(", "P",
            "h", "P", ")", " ", "1">>,
         <<"f", "o", "r", "e", "i", "g", "n", "_", "p", "a", "i", "d", "_", "u", "p", "_", "c",
            "a", "p", "i", "t", "a", "l", "_", "a", "m", "o", "u", "n", "t", "_", "p", "h", "p", "_",
            "1">> >>,
      \* 498: 'Subscribed Capital_Filipino'
      << <<"S", "u", "b", "s", "c", "r", "i", "b", "e", "d", " ", "C", "a", "p", "i", "t", "a",
            "l", "_", "F", "i", "l", "i", "p", "i", "n", "o">>,
         <<"f", "i", "l", "i", "p", "i", "n", "o", "_", "s", "u", "b", "s", "c", "r", "i", "b",
            "e", "d", "_", "c", "a", "p", "i", "t", "a", "l", "_", "a", "m", "o", "u", "n", "t", "_",
            "p", "h", "p", "_", "1">> >>,
      \* 499: 'Subscribed Capital_Foreign'
      << <<"S", "u", "b", "s", "c", "r", "i", "b", "e", "d", " ", "C", "a", "p", "i", "t", "a",
            "l", "_", "F", "o", "r", "e", "i", "g", "n">>,
         <<"f", "o", "r", "e", "i", "g", "n", "_", "s", "u", "b", "s", "c", "r", "i", "b", "e",
            "d", "_", "c", "a", "p", "i", "t", "a", "l", "_", "a", "m", "o", "u", "n", "t", "_", "p",
            "h", "p", "_", "1">> >>,
      \* 500: 'Subscribed Capital_% Foreigh Equity'
      << <<"S", "u", "b", "s", "c", "r", "i", "b", "e", "d", " ", "C", "a", "p", "i", "t", "a",
            "l", "_", "%", " ", "F", "o", "r", "e", "i", "g", "h", " ", "E", "q", "u", "i", "t",
            "y">>,
         <<"s", "u", "b", "s", "c", "r", "i", "b", "e", "d", "_", "c", "a", "p", "i", "t", "a",
            "l", "_", "f", "o", "r", "e", "i", "g", "n", "_", "e", "q", "u", "i", "t", "y", "_", "p",
            "e", "r", "c", "e", "n", "t", "a", "g", "e">> >>,
      \* 501: 'Subscribed Capital_Total'
      << <<"S", "u", "b", "s", "c", "r", "i", "b", "e", "d", " ", "C", "a", "p", "i", "t", "a",
            "l", "_", "T", "o", "t", "a", "l">>,
         <<"f", "i", "l", "i", "p", "i", "n", "o", "_", "s", "u", "b", "s", "c", "r", "i", "b",
            "e", "d", "_", "c", "a", "p", "i", "t", "a", "l", "_", "a", "m", "o", "u", "n", "t", "_",
            "p", "h", "p", "_", "1">> >>,
      \* 502: 'Paid-up Capital_Filipino'
      << <<"P", "a", "i", "d", "-", "u", "p", " ", "C", "a", "p", "i", "t", "a", "l", "_", "F",
            "i", "l", "i", "p", "i", "n", "o">>,
         <<"f", "i", "l", "i", "p", "i", "n", "o", "_", "p", "a", "i", "d", "_", "u", "p", "_",
            "c", "a", "p", "i", "t", "a", "l", "_", "a", "m", "o", "u", "n", "t", "_", "p", "h", "p",
            "_", "1">> >>,
      \* 503: 'Paid-up Capital_Foreign'
      << <<"P", "a", "i", "d", "-", "u", "p", " ", "C", "a", "p", "i", "t", "a", "l", "_", "F",
            "o", "r", "e", "i", "g", "n">>,
         <<"f", "o", "r", "e", "i", "g", "n", "_", "p", "a", "i", "d", "_", "u", "p", "_", "c",
            "a", "p", "i", "t", "a", "l", "_", "a", "m", "o", "u", "n", "t", "_", "p", "h", "p", "_",
            "1">> >>,
      \* 504: 'Paid-up Capital_% Foreigh Equity'
      << <<"P", "a", "i", "d", "-", "u", "p", " ", "C", "a", "p", "i", "t", "a", "l", "_", "%",
            " ", "F", "o", "r", "e", "i", "g", "h", " ", "E", "q", "u", "i", "t", "y">>,
         <<"p", "a", "i", "d", "_", "u", "p", "_", "c", "a", "p", "i", "t", "a", "l", "_", "f",
            "o", "r", "e", "i", "g", "n", "_", "e", "q", "u", "i", "t", "y", "_", "p", "e", "r", "c",
            "e", "n", "t", "a", "g", "e">> >>,
      \* 505: 'Paid-up Capital_% Foreign Equity'
      << <<"P", "a", "i", "d", "-", "u", "p", " ", "C", "a", "p", "i", "t", "a", "l", "_", "%",
            " ", "F", "o", "r", "e", "i", "g", "n", " ", "E", "q", "u", "i", "t", "y">>,
         <<"p", "a", "i", "d", "_", "u", "p", "_", "c", "a", "p", "i", "t", "a", "l", "_", "f",
            "o", "r", "e", "i", "g", "n", "_", "e", "q", "u", "i", "t", "y", "_", "p", "e", "r", "c",
            "e", "n", "t", "a", "g", "e">> >>,
      \* 506: 'Paid-Up Capital_Total'
      << <<"P", "a", "i", "d", "-", "U", "p", " ", "C", "a", "p", "i", "t", "a", "l", "_", "T",
            "o", "t", "a", "l">>,
         <<"f", "i", "l", "i", "p", "i", "n", "o", "_", "p", "a", "i", "d", "_", "u", "p", "_",
            "c", "a", "p", "i", "t", "a", "l", "_", "a", "m", "o", "u", "n", "t", "_", "p", "h", "p",
            "_", "1">> >>,
      \* 509: 'Director/Officer_Name'
      << <<"D", "i", "r", "e", "c", "t", "o", "r", "/", "O", "f", "f", "i", "c", "e", "r", "_",
            "N", "a", "m", "e">>,
         <<"d", "i", "r", "e", "c", "t", "o", "r", "_", "o", "f", "f", "i", "c", "e", "r", "_",
            "n", "a", "m", "e">> >>,
      \* 510: 'Director/Officer_Address'
      << <<"D", "i", "r", "e", "c", "t", "o", "r", "/", "O", "f", "f", "i", "c", "e", "r", "_",
            "A", "d", "d", "r", "e", "s", "s">>,
         <<"d", "i", "r", "e", "c", "t", "o", "r", "_", "o", "f", "f", "i", "c", "e", "r", "_",
            "a", "d", "d", "r", "e", "s", "s">> >>,
      \* 511: 'Director/Officer_Nationality'
      << <<"D", "i", "r", "e", "c", "t", "o", "r", "/", "O", "f", "f", "i", "c", "e", "r", "_",
            "N", "a", "t", "i", "o", "n", "a", "l", "i", "t", "y">>,
         <<"d", "i", "r", "e", "c", "t", "o", "r", "_", "o", "f", "f", "i", "c", "e", "r", "_",
            "n", "a", "t", "i", "o", "n", "a", "l", "i", "t", "y">> >>,
      \* 512: "Director/Officer_INC'R"
      << <<"D", "i", "r", "e", "c", "t", "o", "r", "/", "O", "f", "f", "i", "c", "e", "r", "_",
            "I", "N", "C", "'", "R">>,
         <<"d", "i", "r", "e", "c", "t", "o", "r", "_", "o", "f", "f", "i", "c", "e", "r", "_",
            "i", "n", "c", "_", "r">> >>,
      \* 513: 'Director/Officer_Board'
      << <<"D", "i", "r", "e", "c", "t", "o", "r", "/", "O", "f", "f", "i", "c", "e", "r", "_",
            "B", "o", "a", "r", "d">>,
         <<"d", "i", "r", "e", "c", "t", "o", "r", "_", "o", "f", "f", "i", "c", "e", "r", "_",
            "b", "o", "a", "r", "d">> >>,
      \* 514: 'Director/Officer_Gender'
      << <<"D", "i", "r", "e", "c", "t", "o", "r", "/", "O", "f", "f", "i", "c", "e", "r", "_",
            "G", "e", "n", "d", "e", "r">>,
         <<"d", "i", "r", "e", "c", "t", "o", "r", "_", "o", "f", "f", "i", "c", "e", "r", "_",
            "g", "e", "n", "d", "e", "r">> >>,
      \* 515: 'Director/Officer_Stock Holder'
      << <<"D", "i", "r", "e", "c", "t", "o", "r", "/", "O", "f", "f", "i", "c", "e", "r", "_",
            "S", "t", "o", "c", "k", " ", "H", "o", "l", "d", "e", "r">>,
         <<"d", "i", "r", "e", "c", "t", "o", "r", "_", "o", "f", "f", "i", "c", "e", "r", "_",
            "s", "t", "o", "c", "k", "_", "h", "o", "l", "d", "e", "r">> >>,
      \* 516: 'Director/Officer_Officer'
      << <<"D", "i", "r", "e", "c", "t", "o", "r", "/", "O", "f", "f", "i", "c", "e", "r", "_",
            "O", "f", "f", "i", "c", "e", "r">>,
         <<"d", "i", "r", "e", "c", "t", "o", "r", "_", "o", "f", "f", "i", "c", "e", "r", "_",
            "o", "f", "f", "i", "c", "e", "r">> >>,
      \* 517: 'Director/Officer_Exec Comm.'
      << <<"D", "i", "r", "e", "c", "t", "o", "r", "/", "O", "f", "f", "i", "c", "e", "r", "_",
            "E", "x", "e", "c", " ", "C", "o", "m", "m", ".">>,
         <<"d", "i", "r", "e", "c", "t", "o", "r", "_", "o", "f", "f", "i", "c", "e", "r", "_",
            "e", "x", "e", "c", "_", "c", "o", "m", "m">> >>,
      \* 518: 'Director/Officer_TIN'
      << <<"D", "i", "r", "e", "c", "t", "o", "r", "/", "O", "f", "f", "i", "c", "e", "r", "_",
            "T", "I", "N">>,
         <<"d", "i", "r", "e", "c", "t", "o", "r", "_", "o", "f", "f", "i", "c", "e", "r", "_",
            "t", "i", "n">> >>,
      \* 521: 'Total Number of Stockholders'
      << <<"T", "o", "t", "a", "l", " ", "N", "u", "m", "b", "e", "r", " ", "o", "f", " ", "S",
            "t", "o", "c", "k", "h", "o", "l", "d", "e", "r", "s">>,
         <<"t", "o", "t", "a", "l", "_", "n", "u", "m", "b", "e", "r", "_", "s", "t", "o", "c",
            "k", "h", "o", "l", "d", "e", "r", "s">> >>,
      \* 522: 'Number of Stockholders with >=100 shares'
      << <<"N", "u", "m", "b", "e", "r", " ", "o", "f", " ", "S", "t", "o", "c", "k", "h", "o",
            "l", "d", "e", "r", "s", " ", "w", "i", "t", "h", " ", "U+2265", "1", "0", "0", " ", "s",
            "h", "a", "r", "e", "s">>,
         <<"n", "u", "m", "b", "e", "r", "_", "s", "t", "o", "c", "k", "h", "o", "l", "d", "e",
            "r", "s", "_", "1", "0", "0", "_", "p", "l", "u", "s", "_", "s", "h", "a", "r", "e",
            "s">> >>,
      \* 523: 'Total Assets (Latest Audited FS)'
      << <<"T", "o", "t", "a", "l", " ", "A", "s", "s", "e", "t", "s", " ", "(", "L", "a", "t",
            "e", "s", "t", " ", "A", "u", "d", "i", "t", "e", "d", " ", "F", "S", ")">>,
         <<"t", "o", "t", "a", "l", "_", "a", "s", "s", "e", "t", "s">> >>,
      \* 526: 'Stockholder_Name'
      << <<"S", "t", "o", "c", "k", "h", "o", "l", "d", "e", "r", "_", "N", "a", "m", "e">>,
         <<"s", "t", "o", "c", "k", "h", "o", "l", "d", "e", "r", "_", "n", "a", "m", "e">> >>,
      \* 527: 'Stockholder_Nationality'
      << <<"S", "t", "o", "c", "k", "h", "o", "l", "d", "e", "r", "_", "N", "a", "t", "i", "o",
            "n", "a", "l", "i", "t", "y">>,
         <<"s", "t", "o", "c", "k", "h", "o", "l", "d", "e", "r", "_", "n", "a", "t", "i", "o",
            "n", "a", "l", "i", "t", "y">> >>,
      \* 528: 'Stockholder_Address'
      << <<"S", "t", "o", "c", "k", "h", "o", "l", "d", "e", "r", "_", "A", "d", "d", "r", "e",
            "s", "s">>,
         <<"s", "t", "o", "c", "k", "h", "o", "l", "d", "e", "r", "_", "a", "d", "d", "r", "e",
            "s", "s">> >>,
      \* 529: 'Stockholder_Total Shares Subscribed_No.'
      << <<"S", "t", "o", "c", "k", "h", "o", "l", "d", "e", "r", "_", "T", "o", "t", "a", "l",
            " ", "S", "h", "a", "r", "e", "s", " ", "S", "u", "b", "s", "c", "r", "i", "b", "e", "d",
            "_", "N", "o", ".">>,
         <<"s", "t", "o", "c", "k", "h", "o", "l", "d", "e", "r", "_", "s", "h", "a", "r", "e",
            "s", "_", "s", "u", "b", "s", "c", "r", "i", "b", "e", "d", "_", "n", "u", "m", "b", "e",
            "r">> >>,
      \* 530: 'Stockholder_Total Shares Subscribed_Amount (PHP)'
      << <<"S", "t", "o", "c", "k", "h", "o", "l", "d", "e", "r", "_", "T", "o", "t", "a", "l",
            " ", "S", "h", "a", "r", "e", "s", " ", "S", "u", "b", "s", "c", "r", "i", "b", "e", "d",
            "_", "A", "m", "o", "u", "n", "t", " ", "(", "P", "H", "P", ")">>,
         <<"s", "t", "o", "c", "k", "h", "o", "l", "d", "e", "r", "_", "s", "h", "a", "r", "e",
            "s", "_", "s", "u", "b", "s", "c", "r", "i", "b", "e", "d", "_", "a", "m", "o", "u", "n",
            "t">> >>,
      \* 531: 'Stockholder_% of Ownership'
      << <<"S", "t", "o", "c", "k", "h", "o", "l", "d", "e", "r", "_", "%", " ", "o", "f", " ",
            "O", "w", "n", "e", "r", "s", "h", "i", "p">>,
         <<"s", "t", "o", "c", "k", "h", "o", "l", "d", "e", "r", "_", "o", "w", "n", "e", "r",
            "s", "h", "i", "p", "_", "p", "e", "r", "c", "e", "n", "t", "a", "g", "e">> >>,
      \* 532: 'Stockholder_Amount Paid (PHP)'
      << <<"S", "t", "o", "c", "k", "h", "o", "l", "d", "e", "r", "_", "A", "m", "o", "u", "n",
            "t", " ", "P", "a", "i", "d", " ", "(", "P", "H", "P", ")">>,
         <<"s", "t", "o", "c", "k", "h", "o", "l", "d", "e", "r", "_", "a", "m", "o", "u", "n",
            "t", "_", "p", "a", "i", "d">> >>,
      \* 533: 'Stockholder_TIN'
      << <<"S", "t", "o", "c", "k", "h", "o", "l", "d", "e", "r", "_", "T", "I", "N">>,
         <<"s", "t", "o", "c", "k", "h", "o", "l", "d", "e", "r", "_", "t", "i", "n">> >>,
      \* 536: 'Subscribed Capital_Total (PHP) (from Stockholder detail pages)'
      << <<"S", "u", "b", "s", "c", "r", "i", "b", "e", "d", " ", "C", "a", "p", "i", "t", "a",
            "l", "_", "T", "o", "t", "a", "l", " ", "(", "P", "H", "P", ")", " ", "(", "f", "r", "o",
            "m", " ", "S", "t", "o", "c", "k", "h", "o", "l", "d", "e", "r", " ", "d", "e", "t", "a",
            "i", "l", " ", "p", "a", "g", "e", "s", ")">>,
         <<"f", "i", "l", "i", "p", "i", "n", "o", "_", "s", "u", "b", "s", "c", "r", "i", "b",
            "e", "d", "_", "c", "a", "p", "i", "t", "a", "l", "_", "a", "m", "o", "u", "n", "t", "_",
            "p", "h", "p", "_", "1">> >>,
      \* 537: 'Paid-Up Capital_Total (PHP) (from Stockholder detail pages)'
      << <<"P", "a", "i", "d", "-", "U", "p", " ", "C", "a", "p", "i", "t", "a", "l", "_", "T",
            "o", "t", "a", "l", " ", "(", "P", "H", "P", ")", " ", "(", "f", "r", "o", "m", " ", "S",
            "t", "o", "c", "k", "h", "o", "l", "d", "e", "r", " ", "d", "e", "t", "a", "i", "l", " ",
            "p", "a", "g", "e", "s", ")">>,
         <<"f", "i", "l", "i", "p", "i", "n", "o", "_", "p", "a", "i", "d", "_", "u", "p", "_",
            "c", "a", "p", "i", "t", "a", "l", "_", "a", "m", "o", "u", "n", "t", "_", "p", "h", "p",
            "_", "1">> >>,
      \* 538: 'Unrestricted Retained Earnings (PHP)'
      << <<"U", "n", "r", "e", "s", "t", "r", "i", "c", "t", "e", "d", " ", "R", "e", "t", "a",
            "i", "n", "e", "d", " ", "E", "a", "r", "n", "i", "n", "g", "s", " ", "(", "P", "H", "P",
            ")">>,
         << >> >>,
      \* 539: 'Prior year Dividends_Cash (PHP)'
      << <<"P", "r", "i", "o", "r", " ", "y", "e", "a", "r", " ", "D", "i", "v", "i", "d", "e",
            "n", "d", "s", "_", "C", "a", "s", "h", " ", "(", "P", "H", "P", ")">>,
         <<"p", "r", "i", "o", "r", "_", "y", "e", "a", "r", "_", "d", "i", "v", "i", "d", "e",
            "n", "d", "s", "_", "c", "a", "s", "h">> >>,
      \* 540: 'Prior year Dividends_Stock (PHP)'
      << <<"P", "r", "i", "o", "r", " ", "y", "e", "a", "r", " ", "D", "i", "v", "i", "d", "e",
            "n", "d", "s", "_", "S", "t", "o", "c", "k", " ", "(", "P", "H", "P", ")">>,
         <<"p", "r", "i", "o", "r", "_", "y", "e", "a", "r", "_", "d", "i", "v", "i", "d", "e",
            "n", "d", "s", "_", "s", "t", "o", "c", "k">> >>,
      \* 541: 'Prior year Dividends_Property (PHP)'
      << <<"P", "r", "i", "o", "r", " ", "y", "e", "a", "r", " ", "D", "i", "v", "i", "d", "e",
            "n", "d", "s", "_", "P", "r", "o", "p", "e", "r", "t", "y", " ", "(", "P", "H", "P",
            ")">>,
         <<"p", "r", "i", "o", "r", "_", "y", "e", "a", "r", "_", "d", "i", "v", "i", "d", "e",
            "n", "d", "s", "_", "p", "r", "o", "p", "e", "r", "t", "y">> >>,
      \* 542: 'Prior year Dividends_Total (PHP)'
      << <<"P", "r", "i", "o", "r", " ", "y", "e", "a", "r", " ", "D", "i", "v", "i", "d", "e",
            "n", "d", "s", "_", "T", "o", "t", "a", "l", " ", "(", "P", "H", "P", ")">>,
         <<"p", "r", "i", "o", "r", "_", "y", "e", "a", "r", "_", "d", "i", "v", "i", "d", "e",
            "n", "d", "s", "_", "t", "o", "t", "a", "l">> >>,
      \* 543: 'Share Issuance_Date'
      << <<"S", "h", "a", "r", "e", " ", "I", "s", "s", "u", "a", "n", "c", "e", "_", "D", "a",
            "t", "e">>,
         <<"s", "h", "a", "r", "e", "_", "i", "s", "s", "u", "a", "n", "c", "e", "_", "d", "a",
            "t", "e">> >>,
      \* 544: 'Share Issuance_No'
      << <<"S", "h", "a", "r", "e", " ", "I", "s", "s", "u", "a", "n", "c", "e", "_", "N", "o">>,
         <<"s", "h", "a", "r", "e", "_", "i", "s", "s", "u", "a", "n", "c", "e", "_", "n", "u",
            "m", "b", "e", "r">> >>,
      \* 545: 'Share Issuance_Amount (PHP)'
      << <<"S", "h", "a", "r", "e", " ", "I", "s", "s", "u", "a", "n", "c", "e", "_", "A", "m",
            "o", "u", "n", "t", " ", "(", "P", "H", "P", ")">>,
         <<"s", "h", "a", "r", "e", "_", "i", "s", "s", "u", "a", "n", "c", "e", "_", "a", "m",
            "o", "u", "n", "t">> >>,
      \* 548: 'SEC License Type'
      << <<"S", "E", "C", " ", "L", "i", "c", "e", "n", "s", "e", " ", "T", "y", "p", "e">>,
         <<"s", "e", "c", "_", "l", "i", "c", "e", "n", "s", "e", "_", "t", "y", "p", "e">> >>,
      \* 549: 'SEC Licnese Date'
      << <<"S", "E", "C", " ", "L", "i", "c", "n", "e", "s", "e", " ", "D", "a", "t", "e">>,
         <<"s", "e", "c", "_", "l", "i", "c", "e", "n", "s", "e", "_", "d", "a", "t", "e">> >>,
      \* 550: 'SEC Ops start'
      << <<"S", "E", "C", " ", "O", "p", "s", " ", "s", "t", "a", "r", "t">>,
         <<"s", "e", "c", "_", "o", "p", "s", "_", "s", "t", "a", "r", "t">> >>,
      \* 551: 'BSP License Type'
      << <<"B", "S", "P", " ", "L", "i", "c", "e", "n", "s", "e", " ", "T", "y", "p", "e">>,
         <<"b", "s", "p", "_", "l", "i", "c", "e", "n", "s", "e", "_", "t", "y", "p", "e">> >>,
      \* 552: 'BSP Licnese Date'
      << <<"B", "S", "P", " ", "L", "i", "c", "n", "e", "s", "e", " ", "D", "a", "t", "e">>,
         <<"b", "s", "p", "_", "l", "i", "c", "e", "n", "s", "e", "_", "d", "a", "t", "e">> >>,
      \* 553: 'BSP Ops start'
      << <<"B", "S", "P", " ", "O", "p", "s", " ", "s", "t", "a", "r", "t">>,
         <<"b", "s", "p", "_", "o", "p", "s", "_", "s", "t", "a", "r", "t">> >>,
      \* 554: 'IC License Type'
      << <<"I", "C", " ", "L", "i", "c", "e", "n", "s", "e", " ", "T", "y", "p", "e">>,
         <<"i", "c", "_", "l", "i", "c", "e", "n", "s", "e", "_", "t", "y", "p", "e">> >>,
      \* 555: 'IC Licnese Date'
      << <<"I", "C", " ", "L", "i", "c", "n", "e", "s", "e", " ", "D", "a", "t", "e">>,
         <<"i", "c", "_", "l", "i", "c", "e", "n", "s", "e", "_", "d", "a", "t", "e">> >>,
      \* 556: 'IC Ops start'
      << <<"I", "C", " ", "O", "p", "s", " ", "s", "t", "a", "r", "t">>,
         <<"i", "c", "_", "o", "p", "s", "_", "s", "t", "a", "r", "t">> >>,
      \* 559: 'Total Comp (PHP)'
      << <<"T", "o", "t", "a", "l", " ", "C", "o", "m", "p", " ", "(", "P", "H", "P", ")">>,
         <<"t", "o", "t", "a", "l", "_", "c", "o", "m", "p", "e", "n", "s", "a", "t", "i", "o",
            "n">> >>,
      \* 560: 'No Officers'
      << <<"N", "o", " ", "O", "f", "f", "i", "c", "e", "r", "s">>,
         <<"n", "u", "m", "b", "e", "r", "_", "o", "f", "f", "i", "c", "e", "r", "s">> >>,
      \* 561: 'No Employees'
      << <<"N", "o", " ", "E", "m", "p", "l", "o", "y", "e", "e", "s">>,
         <<"n", "u", "m", "b", "e", "r", "_", "e", "m", "p", "l", "o", "y", "e", "e", "s">> >>,
      \* 562: 'Total Manpower'
      << <<"T", "o", "t", "a", "l", " ", "M", "a", "n", "p", "o", "w", "e", "r">>,
         <<"t", "o", "t", "a", "l", "_", "m", "a", "n", "p", "o", "w", "e", "r">> >>,
      \* 565: 'UBO_Name'
      << <<"U", "B", "O", "_", "N", "a", "m", "e">>,
         <<"u", "b", "o", "_", "n", "a", "m", "e">> >>,
      \* 566: 'UBO_Address'
      << <<"U", "B", "O", "_", "A", "d", "d", "r", "e", "s", "s">>,
         <<"u", "b", "o", "_", "a", "d", "d", "r", "e", "s", "s">> >>,
      \* 567: 'UBO_Naitonality'
      << <<"U", "B", "O", "_", "N", "a", "i", "t", "o", "n", "a", "l", "i", "t", "y">>,
         <<"u", "b", "o", "_", "n", "a", "t", "i", "o", "n", "a", "l", "i", "t", "y">> >>,
      \* 568: 'UBO_DOB'
      << <<"U", "B", "O", "_", "D", "O", "B">>,
         <<"u", "b", "o", "_", "d", "o", "b">> >>,
      \* 569: 'UBO_TIN'
      << <<"U", "B", "O", "_", "T", "I", "N">>,
         <<"u", "b", "o", "_", "t", "i", "n">> >>,
      \* 570: 'UBO_% ownership'
      << <<"U", "B", "O", "_", "%", " ", "o", "w", "n", "e", "r", "s", "h", "i", "p">>,
         <<"u", "b", "o", "_", "o", "w", "n", "e", "r", "s", "h", "i", "p", "_", "p", "e", "r",
            "c", "e", "n", "t", "a", "g", "e">> >>,
      \* 571: 'UBO_Type'
      << <<"U", "B", "O", "_", "T", "y", "p", "e">>,
         <<"u", "b", "o", "_", "t", "y", "p", "e">> >>,
      \* 572: 'UBO_Category'
      << <<"U", "B", "O", "_", "C", "a", "t", "e", "g", "o", "r", "y">>,
         <<"u", "b", "o", "_", "c", "a", "t", "e", "g", "o", "r", "y">> >>,
      \* 575: "Director/Officer_INC'R"
      << <<"D", "i", "r", "e", "c", "t", "o", "r", "/", "O", "f", "f", "i", "c", "e", "r", "_",
            "I", "N", "C", "'", "R">>,
         <<"d", "i", "r", "e", "c", "t", "o", "r", "_", "o", "f", "f", "i", "c", "e", "r", "_",
            "i", "n", "c", "_", "r">> >>,
      \* 576: 'Director/Officer_Exec Comm.'
      << <<"D", "i", "r", "e", "c", "t", "o", "r", "/", "O", "f", "f", "i", "c", "e", "r", "_",
            "E", "x", "e", "c", " ", "C", "o", "m", "m", ".">>,
         <<"d", "i", "r", "e", "c", "t", "o", "r", "_", "o", "f", "f", "i", "c", "e", "r", "_",
            "e", "x", "e", "c", "_", "c", "o", "m", "m">> >>,
      \* 577: 'Stockholder_Total Shares Subscribed_No.'
      << <<"S", "t", "o", "c", "k", "h", "o", "l", "d", "e", "r", "_", "T", "o", "t", "a", "l",
            " ", "S", "h", "a", "r", "e", "s", " ", "S", "u", "b", "s", "c", "r", "i", "b", "e", "d",
            "_", "N", "o", ".">>,
         <<"s", "t", "o", "c", "k", "h", "o", "l", "d", "e", "r", "_", "s", "h", "a", "r", "e",
            "s", "_", "s", "u", "b", "s", "c", "r", "i", "b", "e", "d", "_", "n", "u", "m", "b", "e",
            "r">> >>,
      \* 578: 'Stockholder_Total Shares Subscribed_Amount (PHP)'
      << <<"S", "t", "o", "c", "k", "h", "o", "l", "d", "e", "r", "_", "T", "o", "t", "a", "l",
            " ", "S", "h", "a", "r", "e", "s", " ", "S", "u", "b", "s", "c", "r", "i", "b", "e", "d",
            "_", "A", "m", "o", "u", "n", "t", " ", "(", "P", "H", "P", ")">>,
         <<"s", "t", "o", "c", "k", "h", "o", "l", "d", "e", "r", "_", "s", "h", "a", "r", "e",
            "s", "_", "s", "u", "b", "s", "c", "r", "i", "b", "e", "d", "_", "a", "m", "o", "u", "n",
            "t">> >>,
      \* 579: 'Stockholder_Amount Paid (PHP)'
      << <<"S", "t", "o", "c", "k", "h", "o", "l", "d", "e", "r", "_", "A", "m", "o", "u", "n",
            "t", " ", "P", "a", "i", "d", " ", "(", "P", "H", "P", ")">>,
         <<"s", "t", "o", "c", "k", "h", "o", "l", "d", "e", "r", "_", "a", "m", "o", "u", "n",
            "t", "_", "p", "a", "i", "d">> >>,
      \* 580: 'Share Issuance_Date'
      << <<"S", "h", "a", "r", "e", " ", "I", "s", "s", "u", "a", "n", "c", "e", "_", "D", "a",
            "t", "e">>,
         <<"s", "h", "a", "r", "e", "_", "i", "s", "s", "u", "a", "n", "c", "e", "_", "d", "a",
            "t", "e">> >>,
      \* 581: 'Share Issuance_No'
      << <<"S", "h", "a", "r", "e", " ", "I", "s", "s", "u", "a", "n", "c", "e", "_", "N", "o">>,
         <<"s", "h", "a", "r", "e", "_", "i", "s", "s", "u", "a", "n", "c", "e", "_", "n", "u",
            "m", "b", "e", "r">> >>
    >>

single_entry_fields ==
    <<
      <<"U", "B", "O", "_">>,
      <<"C", "o", "r", "p", "o", "r", "a", "t", "e", " ", "N", "a", "m", "e">>,
      <<"A", "M", "L", "A", " ", "C", "o", "m", "p", "l", "i", "a", "n", "c", "e", " ", "S", "t",
         "a", "t", "u", "s">>,
      <<"S", "u", "b", "s", "c", "r", "i", "b", "e", "d", " ", "C", "a", "p", "i", "t", "a", "l",
         "_", "T", "o", "t", "a", "l">>,
      <<"P", "a", "i", "d", "-", "U", "p", " ", "C", "a", "p", "i", "t", "a", "l", "_", "T", "o",
         "t", "a", "l">>,
      <<"T", "o", "t", "a", "l", " ", "N", "u", "m", "b", "e", "r", " ", "o", "f", " ", "S", "t",
         "o", "c", "k", "h", "o", "l", "d", "e", "r", "s">>,
      <<"N", "u", "m", "b", "e", "r", " ", "o", "f", " ", "S", "t", "o", "c", "k", "h", "o", "l",
         "d", "e", "r", "s", " ", "w", "i", "t", "h", " ", "U+2265", "1", "0", "0", " ", "s", "h",
         "a", "r", "e", "s">>,
      <<"T", "o", "t", "a", "l", " ", "A", "s", "s", "e", "t", "s", " ", "(", "L", "a", "t", "e",
         "s", "t", " ", "A", "u", "d", "i", "t", "e", "d", " ", "F", "S", ")">>,
      <<"D", "o", "c", "u", "m", "e", "n", "t", " ", "T", "y", "p", "e">>,
      <<"F", "o", "r", " ", "t", "h", "e", " ", "y", "e", "a", "r">>,
      <<"B", "u", "s", "i", "n", "e", "s", "s", "/", "T", "r", "a", "d", "e", " ", "N", "a", "m",
         "e">>,
      <<"D", "a", "t", "e", " ", "R", "e", "g", "i", "s", "t", "e", "r", "e", "d">>,
      <<"F", "i", "s", "c", "a", "l", " ", "Y", "e", "a", "r", " ", "E", "n", "d">>,
      <<"S", "E", "C", " ", "R", "e", "g", "i", "s", "t", "r", "a", "t", "i", "o", "n", " ", "N",
         "u", "m", "b", "e", "r">>,
      <<"C", "o", "r", "p", "o", "r", "a", "t", "e", " ", "T", "I", "N">>,
      <<"W", "e", "b", "s", "i", "t", "e", "/", "U", "R", "L">>,
      <<"P", "r", "i", "n", "c", "i", "p", "a", "l", " ", "O", "f", "f", "i", "c", "e", " ", "A",
         "d", "d", "r", "e", "s", "s">>,
      <<"B", "u", "s", "i", "n", "e", "s", "s", " ", "A", "d", "d", "r", "e", "s", "s">>,
      <<"O", "f", "f", "i", "c", "i", "a", "l", " ", "e", "-", "m", "a", "i", "l", " ", "a", "d",
         "d", "r", "e", "s", "s">>,
      <<"A", "l", "t", "e", "r", "n", "a", "t", "e", " ", "E", "m", "a", "i", "l", " ", "A", "d",
         "d", "r", "e", "s", "s">>,
      <<"O", "f", "f", "i", "c", "i", "a", "l", " ", "M", "o", "b", "i", "l", "e", " ", "N", "u",
         "m", "b", "e", "r">>,
      <<"A", "l", "t", "e", "r", "n", "a", "t", "e", " ", "M", "o", "b", "i", "l", "e", " ", "N",
         "u", "m", "b", "e", "r">>,
      <<"P", "r", "i", "m", "a", "r", "y", " ", "P", "u", "r", "p", "o", "s", "e", "/", "I", "n",
         "d", "u", "s", "t", "r", "y">>,
      <<"I", "n", "d", "u", "s", "t", "r", "y", " ", "C", "l", "a", "s", "s", "i", "f", "i", "c",
         "a", "t", "i", "o", "n">>,
      <<"G", "e", "o", "g", "r", "a", "p", "h", "i", "c", "a", "l", " ", "C", "o", "d", "e">>,
      <<"P", "a", "r", "e", "n", "t", " ", "C", "o", "m", "p", "a", "n", "y", " ", "N", "a", "m",
         "e">>,
      <<"P", "a", "r", "e", "n", "t", " ", "C", "o", "m", "p", "a", "n", "y", " ", "S", "E", "C",
         " ", "R", "e", "g", ".", " ", "N", "o", ".">>,
      <<"P", "a", "r", "e", "n", "t", " ", "C", "o", "m", "p", "a", "n", "y", " ", "A", "d", "d",
         "r", "e", "s", "s">>,
      <<"S", "u", "b", "s", "i", "d", "i", "a", "r", "y", "/", "A", "f", "f", "i", "l", "i", "a",
         "t", "e">>,
      <<"S", "u", "b", "s", "i", "d", "i", "a", "r", "y", "/", "A", "f", "f", "i", "l", "i", "a",
         "t", "e", " ", "S", "E", "C", " ", "R", "e", "g", ".", " ", "N", "o", ".">>,
      <<"S", "u", "b", "s", "i", "d", "i", "a", "r", "y", "/", "A", "f", "f", "i", "l", "i", "a",
         "t", "e", " ", "A", "d", "d", "r", "e", "s", "s">>,
      <<"E", "x", "t", "e", "r", "n", "a", "l", " ", "A", "u", "d", "i", "t", "o", "r">>,
      <<"A", "u", "d", "i", "t", "o", "r", " ", "S", "E", "C", " ", "A", "c", "c", "r", "e", "d",
         "i", "t", "a", "t", "i", "o", "n", " ", "N", "u", "m", "b", "e", "r">>,
      <<"C", "o", "v", "e", "r", "e", "d", " ", "P", "e", "r", "s", "o", "n", " ", "(", "A", "M",
         "L", ")">>
    >>

\* The dict the literal builds.
field_mappings == dict(field_mappings_items)

\* "SEC Reg. No.", the one label of test_cases that the override table lacks.
Label_SEC_Reg_No == <<"S", "E", "C", " ", "R", "e", "g", ".", " ", "N", "o", ".">>

(***************************************************************************)
(* Calls of create_field_transforms.                                       *)
(***************************************************************************)
LabelAlphabet == {"A", "b", " ", "/", "-", "(", ")", ".", "'", "_", GreaterEqualSign}

NormalizerLabels ==
    UNION {TextsOfLen(n, LabelAlphabet) : n \in 0..MaxLabelLen}
    \cup {field_mappings[i][1] : i \in 1..Len(field_mappings)}
    \cup {Label_SEC_Reg_No}

InitNormalize ==
    /\ pc = "start"
    /\ json_data = JNull
    /\ result = NoResult
    /\ prev_result = NoResult
    /\ raised = ""
    /\ calls = 0
    /\ field_name \in NormalizerLabels
    /\ flattened_data = << >>
    /\ ground_truth_df = << >>
    /\ row_index = 0
    /\ field_counters = << >>
    /\ comparison_results = << >>
    /\ st_errors = << >>

Normalize ==
    /\ pc = "start"
    /\ result' = [t |-> "list", v |-> create_field_transforms(field_name)]
    /\ pc' = "done"
    /\ UNCHANGED <<json_data, prev_result, raised, calls, reconcile_vars>>

NextNormalize == Normalize

SpecNormalize == InitNormalize /\ [][NextNormalize]_vars

(***************************************************************************)
(* Reference for the normalizer: each transform as a map over the          *)
(* characters of the label.                                                *)
(***************************************************************************)
RECURSIVE MapChars(_, _)
MapChars(F(_), s) == IF s = << >> THEN << >> ELSE F(Head(s)) \o MapChars(F, Tail(s))

RefComprehensive(s) ==
    MapChars(LAMBDA c : IF c \in {" ", "/", "-"} THEN <<"_">>
                        ELSE IF c \in {"(", ")", GreaterEqualSign, ".", "'"} THEN << >>
                        ELSE <<lower_char(c)>>, s)
RefLight(s) == MapChars(LAMBDA c : IF c \in {" ", "/", "-"} THEN <<"_">> ELSE <<c>>, s)
RefSnake(s) == MapChars(LAMBDA c : IF c = " " THEN <<"_">> ELSE <<lower_char(c)>>, s)
RefNoSpace(s) == MapChars(LAMBDA c : IF c = " " THEN << >> ELSE <<lower_char(c)>>, s)

RefCandidates(s) == <<s, RefComprehensive(s), RefLight(s), RefSnake(s), RefNoSpace(s)>>

\* the elements of a list that do not occur earlier in it, in order
FirstOccurrences(l) ==
    LET keep == {i \in 1..Len(l) : \A j \in 1..(i - 1) : l[j] # l[i]}
        nth[n \in 1..Cardinality(keep)] ==
            CHOOSE i \in keep : Cardinality({j \in keep : j < i}) = n - 1
    IN  [n \in 1..Cardinality(keep) |-> l[nth[n]]]

\* C8: the candidate list of a label is the exact label, its comprehensive
\* transform, its light transform, its basic snake case and its space
\* removal, in this order, with every duplicate after the first occurrence
\* removed: no element is repeated and the first element is the label.
C8_CandidateList ==
    (pc = "done" /\ result.t = "list") =>
        /\ result.v = FirstOccurrences(RefCandidates(field_name))
        /\ \A i, j \in 1..Len(result.v) : i # j => result.v[i] # result.v[j]
        /\ result.v[1] = field_name

\* A label whose five candidates are all different, and one where they fold.
C8_Witness ==
    /\ pc = "done"
    /\ result.t = "list"
    /\ \/ Len(result.v) = 5
       \/ (Len(result.v) = 2 /\ field_name = field_mappings[1][1])


(***************************************************************************)
(* normalize_value (gisv2_app.py:340-351) and similarity_score             *)
(* (gisv2_app.py:353-357).                                                 *)
(***************************************************************************)
Whitespace == {" ", "\t", "\n", "\r"}

\* s.strip()
RECURSIVE str_lstrip(_)
str_lstrip(s) == IF s # << >> /\ Head(s) \in Whitespace THEN str_lstrip(Tail(s)) ELSE s
RECURSIVE str_rstrip(_)
str_rstrip(s) ==
    IF s # << >> /\ s[Len(s)] \in Whitespace THEN str_rstrip(SubSeq(s, 1, Len(s) - 1)) ELSE s
str_strip(s) == str_rstrip(str_lstrip(s))

\* repr(value) of a decoded JSON value whose texts hold no quote and no
\* backslash: 'text', digits, True, False, None, [a, b], {'k': v}
RECURSIVE py_repr(_)
RECURSIVE repr_join(_, _)
repr_join(parts, i) ==
    IF i > Len(parts) THEN << >>
    ELSE (IF i > 1 THEN <<",", " ">> ELSE << >>) \o parts[i] \o repr_join(parts, i + 1)

py_repr(value) ==
    IF value.t = "str" THEN <<"'">> \o value.v \o <<"'">>
    ELSE IF value.t = "num"
         THEN (IF value.v < 0 THEN <<"-">> \o str_int(-value.v) ELSE str_int(value.v))
    ELSE IF value.t = "bool"
         THEN (IF value.v THEN <<"T", "r", "u", "e">> ELSE <<"F", "a", "l", "s", "e">>)
    ELSE IF value.t = "arr"
         THEN <<"[">> \o repr_join([i \in 1..Len(value.v) |-> py_repr(value.v[i])], 1) \o <<"]">>
    ELSE IF value.t = "obj"
         THEN <<"{">>
              \o repr_join([i \in 1..Len(value.v) |->
                               <<"'">> \o value.v[i][1] \o <<"'", ":", " ">>
                                   \o py_repr(value.v[i][2])], 1)
              \o <<"}">>
    ELSE <<"N", "o", "n", "e">>

\* str(value): the text itself, else repr(value)
py_str(value) ==
    IF value.t = "str" THEN value.v
    ELSE IF value.t \in {"arr", "obj"} THEN py_repr(value)
    ELSE IF value.t = "num"
         THEN (IF value.v < 0 THEN <<"-">> \o str_int(-value.v) ELSE str_int(value.v))
    ELSE IF value.t = "bool"
         THEN (IF value.v THEN <<"T", "r", "u", "e">> ELSE <<"F", "a", "l", "s", "e">>)
    ELSE <<"N", "o", "n", "e">>

\* Mutant of normalize_value: the null synonyms are folded to the empty string
\* (the lines commented out in the source).
normalize_value_FoldsNullWords(value) ==
    IF value.t = "null" THEN << >>
    ELSE IF str_lower(str_strip(py_str(value)))
              \in {<<"n", "u", "l", "l">>, <<"n", "/", "a">>, <<"n", "a">>,
                   <<"n", "o", "n", "e">>, << >>}
         THEN << >>
         ELSE str_strip(py_str(value))

normalize_value(value) ==
    IF value.t = "null" THEN << >> ELSE str_strip(py_str(value))

(***************************************************************************)
(* difflib.SequenceMatcher(None, a, b).ratio() for strings shorter than    *)
(* 200 characters (no junk, no popular elements): the longest matching     *)
(* block, leftmost in a and then in b, then the same to its left and to    *)
(* its right; ratio = 2 * matched / (len(a) + len(b)).  Indices are        *)
(* 1-based and the ranges alo..ahi, blo..bhi inclusive.                    *)
(***************************************************************************)
RECURSIVE common_run(_, _, _, _, _, _)
common_run(a, b, i, j, ahi, bhi) ==
    IF i <= ahi /\ j <= bhi /\ a[i] = b[j]
    THEN 1 + common_run(a, b, i + 1, j + 1, ahi, bhi)
    ELSE 0

SetMax(S) == CHOOSE x \in S : \A y \in S : y <= x
SetMin(S) == CHOOSE x \in S : \A y \in S : x <= y

find_longest_match(a, b, alo, ahi, blo, bhi) ==
    LET starts == (alo..ahi) \X (blo..bhi)
        best == SetMax({0} \cup {common_run(a, b, st[1], st[2], ahi, bhi) : st \in starts})
    IN  IF best = 0 THEN [i |-> alo, j |-> blo, size |-> 0]
        ELSE LET hits == {st \in starts : common_run(a, b, st[1], st[2], ahi, bhi) = best}
                 i0 == SetMin({st[1] : st \in hits})
                 j0 == SetMin({st[2] : st \in {h \in hits : h[1] = i0}})
             IN  [i |-> i0, j |-> j0, size |-> best]

\* sum of the sizes of get_matching_blocks()
RECURSIVE matching_total(_, _, _, _, _, _)
matching_total(a, b, alo, ahi, blo, bhi) ==
    LET m == find_longest_match(a, b, alo, ahi, blo, bhi)
    IN  IF m.size = 0 THEN 0
        ELSE m.size
             + (IF alo < m.i /\ blo < m.j
                THEN matching_total(a, b, alo, m.i - 1, blo, m.j - 1) ELSE 0)
             + (IF m.i + m.size <= ahi /\ m.j + m.size <= bhi
                THEN matching_total(a, b, m.i + m.size, ahi, m.j + m.size, bhi) ELSE 0)

\* A ratio is the fraction num / den.
Ratio(n, d) == [num |-> n, den |-> d]
RatioGreater(r, n, d) == r.num * d > n * r.den

sequence_matcher_ratio(a, b) ==
    IF Len(a) + Len(b) = 0 THEN Ratio(1, 1)
    ELSE Ratio(2 * matching_total(a, b, 1, Len(a), 1, Len(b)), Len(a) + Len(b))

\* Mutant of similarity_score: the strings are compared without lowercasing.
similarity_score_CaseSensitive(val1, val2) ==
    IF val1 = val2 THEN Ratio(1, 1) ELSE sequence_matcher_ratio(val1, val2)

similarity_score(val1, val2) ==
    IF val1 = val2 THEN Ratio(1, 1)
    ELSE sequence_matcher_ratio(str_lower(val1), str_lower(val2))


(***************************************************************************)
(* Calls of similarity_score: every pair of texts over a small alphabet    *)
(* with both letter cases, and the pair of the documented example.         *)
(***************************************************************************)
SimilarityAlphabet == {"a", "A", "b"}
Text_ABC == <<"A", "B", "C">>
Text_abc == <<"a", "b", "c">>

SimilarityTexts ==
    UNION {TextsOfLen(n, SimilarityAlphabet) : n \in 0..MaxSimilarityLen}
    \cup {Text_ABC, Text_abc}

\* the arguments of the call
val1 == json_data.v[1].v
val2 == json_data.v[2].v

InitSimilarity ==
    /\ pc = "start"
    /\ json_data \in {JArr(<<JStr(a), JStr(b)>>) : a \in SimilarityTexts, b \in SimilarityTexts}
    /\ result = NoResult
    /\ prev_result = NoResult
    /\ raised = ""
    /\ calls = 0
    /\ ReconcileIdle

Similarity ==
    /\ pc = "start"
    /\ result' = [t |-> "float", v |-> similarity_score(val1, val2)]
    /\ pc' = "done"
    /\ UNCHANGED <<json_data, prev_result, raised, calls, reconcile_vars>>

NextSimilarity == Similarity

SpecSimilarity == InitSimilarity /\ [][NextSimilarity]_vars

\* C18: similarity_score(a, b) is 1.0 whenever a and b are equal after
\* lowercasing: identical texts (the empty one included) through the
\* exact-match shortcut, texts that differ only in letter case through the
\* ratio of the lowercased texts.
C18_EqualAfterLowercasingIsOne ==
    pc = "done" /\ [i \in 1..Len(val1) |-> lower_char(val1[i])]
                     = [i \in 1..Len(val2) |-> lower_char(val2[i])]
    => result.v.num = result.v.den /\ result.v.den > 0

\* "ABC" against "abc": the shortcut does not apply, the ratio is 6/6
C18_Witness ==
    /\ pc = "done"
    /\ val1 = Text_ABC
    /\ val2 = Text_abc
    /\ val1 # val2
    /\ result.v = Ratio(6, 6)


(***************************************************************************)
(* compare_with_ground_truth (gisv2_app.py:359-691).  The ground-truth     *)
(* DataFrame is [columns, rows], a row a function from the column names to *)
(* cell values; a missing cell read by pandas is NaN.  The returned        *)
(* DataFrame is [t |-> "DataFrame", v |-> the emitted rows].  The status   *)
(* texts are written without their leading pictograph.                     *)
(***************************************************************************)
JNaN == [t |-> "nan", v |-> << >>]

\* str(value) of a table cell
cell_str(value) == IF value.t = "nan" THEN <<"n", "a", "n">> ELSE py_str(value)

\* normalize_value applied to a table cell
normalize_cell(value) ==
    IF value.t = "nan" THEN str_strip(cell_str(value)) ELSE normalize_value(value)

DataFrame(rows) == [t |-> "DataFrame", v |-> rows]

repeatable_prefixes ==
    << <<"D", "i", "r", "e", "c", "t", "o", "r", "/", "O", "f", "f", "i", "c", "e", "r">>,
       <<"S", "t", "o", "c", "k", "h", "o", "l", "d", "e", "r">>,
       <<"A", "M", "L", "A", " ", "C", "a", "t", "e", "g", "o", "r", "y">> >>

\* field_name.startswith(('Director/Officer', 'Stockholder', 'AMLA Category'))
starts_with_repeatable(name) ==
    \E i \in 1..Len(repeatable_prefixes) : str_startswith(name, repeatable_prefixes[i])

\* field_name in field_mappings and field_mappings[field_name] (a non-empty stem)
has_mapped_field(name) ==
    dict_has(field_mappings, name) /\ dict_get(field_mappings, name) # << >>

\* Mutant of numbered_key: the occurrence count is left out.
numbered_key_Unnumbered(name, current_count) ==
    IF has_mapped_field(name)
    THEN dict_get(field_mappings, name)
    ELSE most_comprehensive_transform(name)

\* lines 600-608: f"{base_mapped}_{current_count}" or f"{base_key}_{current_count}"
numbered_key(name, current_count) ==
    IF has_mapped_field(name)
    THEN dict_get(field_mappings, name) \o <<"_">> \o str_int(current_count)
    ELSE most_comprehensive_transform(name) \o <<"_">> \o str_int(current_count)

\* Mutant of possible_keys: the override stem is tried after the transforms.
possible_keys_StemLast(name, current_count) ==
    LET base_transforms ==
            IF has_mapped_field(name)
            THEN base_transforms_of(name) \o <<dict_get(field_mappings, name)>>
            ELSE base_transforms_of(name)
        keys == remove_duplicates(<<name>> \o base_transforms)
    IN  IF starts_with_repeatable(name)
        THEN <<numbered_key(name, current_count)>> \o keys
        ELSE keys

\* Mutant of possible_keys: the override stem is tried before the exact label.
possible_keys_StemFirst(name, current_count) ==
    LET base_transforms ==
            IF has_mapped_field(name)
            THEN <<dict_get(field_mappings, name)>> \o <<name>> \o base_transforms_of(name)
            ELSE <<name>> \o base_transforms_of(name)
        keys == remove_duplicates(base_transforms)
    IN  IF starts_with_repeatable(name)
        THEN <<numbered_key(name, current_count)>> \o keys
        ELSE keys

\* lines 408-418 and 584-609: the candidate keys of a label at its current count
possible_keys(name, current_count) ==
    LET base_transforms ==
            IF has_mapped_field(name)
            THEN <<dict_get(field_mappings, name)>> \o base_transforms_of(name)
            ELSE base_transforms_of(name)
        keys == remove_duplicates(<<name>> \o base_transforms)
    IN  IF starts_with_repeatable(name)
        THEN <<numbered_key(name, current_count)>> \o keys
        ELSE keys

\* Mutant of first_present: a key holding null is passed over.
RECURSIVE first_present_SkipsNull(_, _, _)
first_present_SkipsNull(keys, flat, i) ==
    IF i > Len(keys) THEN << >>
    ELSE IF dict_has(flat, keys[i]) /\ dict_get(flat, keys[i]).t # "null"
    THEN normalize_value(dict_get(flat, keys[i]))
    ELSE first_present_SkipsNull(keys, flat, i + 1)

\* lines 655-658: the value of the first candidate key the flat map holds
RECURSIVE first_present(_, _, _)
first_present(keys, flat, i) ==
    IF i > Len(keys) THEN << >>
    ELSE IF dict_has(flat, keys[i]) THEN normalize_value(dict_get(flat, keys[i]))
    ELSE first_present(keys, flat, i + 1)

\* Mutant of is_single_entry: every label is a single entry.
is_single_entry_EveryLabel(name) == TRUE

\* any(field_name.startswith(prefix) or field_name == prefix for prefix in single_entry_fields)
is_single_entry(name) ==
    \E i \in 1..Len(single_entry_fields) :
        str_startswith(name, single_entry_fields[i]) \/ name = single_entry_fields[i]

\* Mutant of flattened_value_of: a single-entry label is looked up on every occurrence.
flattened_value_of_NoSingleEntryRule(name, current_count, flat) ==
    IF dict_has(field_mappings, name) /\ dict_get(field_mappings, name) = << >>
    THEN << >>
    ELSE first_present(possible_keys(name, current_count), flat, 1)

\* Mutant of flattened_value_of: an empty override does not stop the lookup.
flattened_value_of_NoExplicitMissing(name, current_count, flat) ==
    IF is_single_entry(name) /\ current_count > 1 THEN << >>
    ELSE first_present(possible_keys(name, current_count), flat, 1)

\* lines 648-658
flattened_value_of(name, current_count, flat) ==
    IF is_single_entry(name) /\ current_count > 1 THEN << >>
    ELSE IF dict_has(field_mappings, name) /\ dict_get(field_mappings, name) = << >>
    THEN << >>
    ELSE first_present(possible_keys(name, current_count), flat, 1)

\* Mutant of status_of: the thresholds are inclusive.
status_of_Inclusive(flattened_value, truth_value) ==
    LET flattened_vs_truth == similarity_score(flattened_value, truth_value)
    IN  IF flattened_value = truth_value THEN "Perfect Match"
        ELSE IF 10 * flattened_vs_truth.num >= 9 * flattened_vs_truth.den THEN "Very Close"
        ELSE IF 10 * flattened_vs_truth.num >= 7 * flattened_vs_truth.den THEN "Similar"
        ELSE IF flattened_value = << >> THEN "Missing in JSON"
        ELSE "Mismatch"

\* Mutant of status_of: texts that differ in letter case only are a Perfect Match.
status_of_FoldsCase(flattened_value, truth_value) ==
    LET flattened_vs_truth == similarity_score(flattened_value, truth_value)
    IN  IF str_lower(flattened_value) = str_lower(truth_value) THEN "Perfect Match"
        ELSE IF RatioGreater(flattened_vs_truth, 9, 10) THEN "Very Close"
        ELSE IF RatioGreater(flattened_vs_truth, 7, 10) THEN "Similar"
        ELSE IF flattened_value = << >> THEN "Missing in JSON"
        ELSE "Mismatch"

\* lines 663-676
status_of(flattened_value, truth_value) ==
    LET flattened_vs_truth == similarity_score(flattened_value, truth_value)
    IN  IF flattened_value = truth_value THEN "Perfect Match"
        ELSE IF RatioGreater(flattened_vs_truth, 9, 10) THEN "Very Close"
        ELSE IF RatioGreater(flattened_vs_truth, 7, 10) THEN "Similar"
        ELSE IF flattened_value = << >> THEN "Missing in JSON"
        ELSE "Mismatch"

\* f"{x:.2%}": the ratio as a percentage with two decimals, rounded half to even
format_percent(r) ==
    LET scaled == 10000 * r.num
        q == scaled \div r.den
        rem == scaled % r.den
        h == IF 2 * rem > r.den \/ (2 * rem = r.den /\ q % 2 = 1) THEN q + 1 ELSE q
    IN  str_int(h \div 100) \o <<".">> \o <<Digits[((h \div 10) % 10) + 1]>>
        \o <<Digits[(h % 10) + 1]>> \o <<"%">>

\* Mutant of display_field_of: the first occurrence is numbered too.
display_field_of_Always(name, current_count) ==
    name \o <<" ", "(">> \o str_int(current_count) \o <<")">>

\* lines 678-681
display_field_of(name, current_count) ==
    IF current_count > 1
    THEN name \o <<" ", "(">> \o str_int(current_count) \o <<")">>
    ELSE name

\* lines 683-689: the row appended for a label at its current count
comparison_row(name, current_count, truth_value, flat) ==
    LET flattened_value == flattened_value_of(name, current_count, flat)
    IN  [Field |-> display_field_of(name, current_count),
         JSON_Value |-> flattened_value,
         Ground_Truth |-> truth_value,
         Status |-> status_of(flattened_value, truth_value),
         Similarity_Score |-> format_percent(similarity_score(flattened_value, truth_value))]

SeqRange(q) == {q[i] : i \in 1..Len(q)}

\* [col for col in ground_truth_df.columns if col != 'Field']
value_columns(df) == SelectSeq(df.columns, LAMBDA col : col # "Field")

\* if not field_name or field_name.strip() == "": continue
label_is_skipped(cell) ==
    \/ cell.t = "null"
    \/ cell.t = "str" /\ (cell.v = << >> \/ str_strip(cell.v) = << >>)
    \/ cell.t = "num" /\ cell.v = 0
    \/ cell.t = "bool" /\ ~cell.v

\* a label that is truthy and no string has no strip(): AttributeError
label_has_no_strip(cell) == ~label_is_skipped(cell) /\ cell.t # "str"

CompareNoFieldColumn ==
    /\ pc = "start"
    /\ "Field" \notin SeqRange(ground_truth_df.columns)
    /\ st_errors' = Append(st_errors, "Ground truth data must have a 'Field' column")
    /\ result' = DataFrame(<< >>)
    /\ pc' = "done"
    /\ UNCHANGED <<json_data, prev_result, raised, calls, field_name, flattened_data,
                   ground_truth_df, row_index, field_counters, comparison_results>>

CompareNoValueColumn ==
    /\ pc = "start"
    /\ "Field" \in SeqRange(ground_truth_df.columns)
    /\ Len(value_columns(ground_truth_df)) < 1
    /\ st_errors' = Append(st_errors,
                           "Ground truth data must have at least 1 value column (ground truth)")
    /\ result' = DataFrame(<< >>)
    /\ pc' = "done"
    /\ UNCHANGED <<json_data, prev_result, raised, calls, field_name, flattened_data,
                   ground_truth_df, row_index, field_counters, comparison_results>>

\* Mutant of CompareBegin: the occurrence counters are process-wide, a call
\* goes on counting where the one before stopped.
CompareBegin_KeepsCounters ==
    /\ pc = "start"
    /\ "Field" \in SeqRange(ground_truth_df.columns)
    /\ Len(value_columns(ground_truth_df)) >= 1
    /\ comparison_results' = << >>
    /\ row_index' = 0
    /\ pc' = "loop"
    /\ UNCHANGED <<json_data, result, prev_result, raised, calls, field_name,
                   flattened_data, ground_truth_df, st_errors, field_counters>>

CompareBegin ==
    /\ pc = "start"
    /\ "Field" \in SeqRange(ground_truth_df.columns)
    /\ Len(value_columns(ground_truth_df)) >= 1
    /\ comparison_results' = << >>
    /\ field_counters' = << >>
    /\ row_index' = 0
    /\ pc' = "loop"
    /\ UNCHANGED <<json_data, result, prev_result, raised, calls, field_name,
                   flattened_data, ground_truth_df, st_errors>>

\* The row the loop is about to read, and its cells.
NextRow == ground_truth_df.rows[row_index + 1]
truth_col == value_columns(ground_truth_df)[1]

CompareSkipRow ==
    /\ pc = "loop"
    /\ row_index < Len(ground_truth_df.rows)
    /\ label_is_skipped(NextRow["Field"])
    /\ row_index' = row_index + 1
    /\ UNCHANGED <<call_vars, field_name, flattened_data, ground_truth_df,
                   field_counters, comparison_results, st_errors>>

CompareBadLabel ==
    /\ pc = "loop"
    /\ row_index < Len(ground_truth_df.rows)
    /\ label_has_no_strip(NextRow["Field"])
    /\ raised' = "AttributeError"
    /\ result' = NoResult
    /\ pc' = "done"
    /\ UNCHANGED <<json_data, prev_result, calls, reconcile_vars>>

CompareEmitRow ==
    /\ pc = "loop"
    /\ row_index < Len(ground_truth_df.rows)
    /\ ~label_is_skipped(NextRow["Field"])
    /\ NextRow["Field"].t = "str"
    /\ LET name == NextRow["Field"].v
           truth_value == normalize_cell(NextRow[truth_col])
           current_count == (IF dict_has(field_counters, name)
                             THEN dict_get(field_counters, name) ELSE 0) + 1
       IN  /\ field_name' = name
           /\ field_counters' = dict_set(field_counters, name, current_count)
           /\ comparison_results' =
                  Append(comparison_results,
                         comparison_row(name, current_count, truth_value, flattened_data))
    /\ row_index' = row_index + 1
    /\ UNCHANGED <<call_vars, flattened_data, ground_truth_df, st_errors>>

CompareReturn ==
    /\ pc = "loop"
    /\ row_index = Len(ground_truth_df.rows)
    /\ result' = DataFrame(comparison_results)
    /\ pc' = "done"
    /\ UNCHANGED <<json_data, prev_result, raised, calls, reconcile_vars>>


(***************************************************************************)
(* Calls of compare_with_ground_truth: ground-truth tables of at most      *)
(* MaxRows rows over a few labels, against every sub-map of a sample flat  *)
(* map.  One family of inputs per rule of the lookup.                      *)
(***************************************************************************)
Label_Stockholder_Name == <<"S", "t", "o", "c", "k", "h", "o", "l", "d", "e", "r", "_", "N", "a", "m", "e">>
Label_Stockholder_Type == <<"S", "t", "o", "c", "k", "h", "o", "l", "d", "e", "r", " ", "T", "y", "p", "e">>
Label_Corporate_Name == <<"C", "o", "r", "p", "o", "r", "a", "t", "e", " ", "N", "a", "m", "e">>
Label_UBO_Name == <<"U", "B", "O", "_", "N", "a", "m", "e">>
Label_Share_Issuance_Date == <<"S", "h", "a", "r", "e", " ", "I", "s", "s", "u", "a", "n", "c", "e", "_", "D", "a", "t", "e">>
Label_Tax_Code == <<"T", "a", "x", " ", "C", "o", "d", "e">>
Label_Unrestricted == <<"U", "n", "r", "e", "s", "t", "r", "i", "c", "t", "e", "d", " ", "R", "e", "t", "a", "i", "n", "e", "d", " ", "E", "a", "r", "n", "i", "n", "g", "s", " ", "(", "P", "H", "P", ")">>

Text_Alice == <<"A", "l", "i", "c", "e">>
Text_Bob == <<"B", "o", "b">>
Text_Acme_Inc == <<"A", "c", "m", "e", " ", "I", "n", "c">>
Text_Should_Be_Empty == <<"S", "h", "o", "u", "l", "d", " ", "B", "e", " ", "E", "m", "p", "t", "y">>

\* every sub-map of a flat map, the order of the kept keys unchanged
RECURSIVE SubMaps(_)
SubMaps(items) ==
    IF items = << >> THEN {<< >>}
    ELSE LET rest == SubMaps(Tail(items))
         IN  rest \cup {<<Head(items)>> \o r : r \in rest}

\* a row of a table with the given columns
MakeRow(columns, label, truth) ==
    [c \in SeqRange(columns) |->
        IF c = "Field" THEN label ELSE IF c = "Value" THEN truth ELSE JStr(<<"n">>)]

\* the tables of at most n rows with the given columns, labels and truth cells
Tables(columns, labels, truths, n) ==
    LET rows == {MakeRow(columns, l, t) : l \in labels, t \in truths}
    IN  {[columns |-> columns, rows |-> r] : r \in UNION {[1..k -> rows] : k \in 0..n}}

TwoColumns == <<"Field", "Value">>

RepeatableFlat ==
    << <<<<"s", "t", "o", "c", "k", "h", "o", "l", "d", "e", "r", "_", "n", "a", "m", "e", "_", "1">>, JStr(<<"A", "l", "i", "c", "e">>)>>,
       <<<<"s", "t", "o", "c", "k", "h", "o", "l", "d", "e", "r", "_", "n", "a", "m", "e", "_", "2">>, JStr(<<"B", "o", "b">>)>>,
       <<<<"s", "t", "o", "c", "k", "h", "o", "l", "d", "e", "r", "_", "n", "a", "m", "e">>, JStr(<<"C", "y">>)>>,
       <<<<"S", "t", "o", "c", "k", "h", "o", "l", "d", "e", "r", "_", "N", "a", "m", "e">>, JStr(<<"D", "i">>)>>,
       <<<<"s", "t", "o", "c", "k", "h", "o", "l", "d", "e", "r", "_", "t", "y", "p", "e", "_", "2">>, JStr(<<"E", "d">>)>> >>
RepeatableFamily ==
    [flat |-> RepeatableFlat, columns |-> TwoColumns,
     labels |-> {JStr(Label_Stockholder_Name), JStr(Label_Stockholder_Type)},
     truths |-> {JStr(Text_Alice), JStr(Text_Bob)}]

SingleEntryFlat ==
    << <<<<"b", "u", "s", "i", "n", "e", "s", "s", "_", "t", "r", "a", "d", "e", "_", "n", "a", "m", "e">>, JStr(<<"A", "c", "m", "e", " ", "I", "n", "c">>)>>,
       <<<<"C", "o", "r", "p", "o", "r", "a", "t", "e", " ", "N", "a", "m", "e">>, JStr(<<"A", "c", "m", "e">>)>>,
       <<<<"u", "b", "o", "_", "n", "a", "m", "e">>, JStr(<<"A", "l">>)>> >>
SingleEntryFamily ==
    [flat |-> SingleEntryFlat, columns |-> TwoColumns,
     labels |-> {JStr(Label_Corporate_Name), JStr(Label_UBO_Name)},
     truths |-> {JStr(Text_Acme_Inc), JStr(Text_Should_Be_Empty), JStr(<< >>), JNaN}]

PlainFlat ==
    << <<<<"S", "h", "a", "r", "e", " ", "I", "s", "s", "u", "a", "n", "c", "e", "_", "D", "a", "t", "e">>, JStr(<<"D", "2">>)>>,
       <<<<"s", "h", "a", "r", "e", "_", "i", "s", "s", "u", "a", "n", "c", "e", "_", "d", "a", "t", "e">>, JStr(<<"D", "1">>)>>,
       <<<<"t", "a", "x", "_", "c", "o", "d", "e">>, JNull>>,
       <<<<"t", "a", "x", "c", "o", "d", "e">>, JStr(<<"T">>)>>,
       <<<<"U", "n", "r", "e", "s", "t", "r", "i", "c", "t", "e", "d", " ", "R", "e", "t", "a", "i", "n", "e", "d", " ", "E", "a", "r", "n", "i", "n", "g", "s", " ", "(", "P", "H", "P", ")">>, JNum(5)>> >>
PlainFamily ==
    [flat |-> PlainFlat, columns |-> TwoColumns,
     labels |-> {JStr(Label_Share_Issuance_Date), JStr(Label_Tax_Code), JStr(Label_Unrestricted)},
     truths |-> {JStr(<<"D", "1">>), JStr(<<"T">>)}]

BlankFlat ==
    << <<<<"t", "a", "x", "_", "c", "o", "d", "e">>, JStr(<<" ", "x", " ">>)>> >>
BlankFamily ==
    [flat |-> BlankFlat, columns |-> TwoColumns,
     labels |-> {JStr(<< >>), JStr(<<" ">>), JNull, JNaN, JNum(0), JNum(7), JStr(Label_Tax_Code)},
     truths |-> {JStr(<<"x">>)}]

\* column layouts: the value column first, no value column, no Field column
LayoutFamilies ==
    {[flat |-> BlankFlat, columns |-> columns,
      labels |-> {JStr(Label_Tax_Code)}, truths |-> {JStr(<<"x">>)}] :
        columns \in {<<"Value", "Field", "Notes">>, <<"Field">>, <<"Value">>}}

\* the label with the empty override, its exact text and two of its transforms as keys
EmptyOverrideFlat ==
    << <<<<"U", "n", "r", "e", "s", "t", "r", "i", "c", "t", "e", "d", " ", "R", "e", "t", "a", "i", "n", "e", "d", " ", "E", "a", "r", "n", "i", "n", "g", "s", " ", "(", "P", "H", "P", ")">>, JStr(<<"7">>)>>,
       <<<<"u", "n", "r", "e", "s", "t", "r", "i", "c", "t", "e", "d", "_", "r", "e", "t", "a", "i", "n", "e", "d", "_", "e", "a", "r", "n", "i", "n", "g", "s", "_", "p", "h", "p">>, JStr(<<"8">>)>>,
       <<<<"U", "n", "r", "e", "s", "t", "r", "i", "c", "t", "e", "d", "_", "R", "e", "t", "a", "i", "n", "e", "d", "_", "E", "a", "r", "n", "i", "n", "g", "s", "_", "(", "P", "H", "P", ")">>, JStr(<<"9">>)>> >>
EmptyOverrideFamily ==
    [flat |-> EmptyOverrideFlat, columns |-> TwoColumns,
     labels |-> {JStr(Label_Unrestricted)},
     truths |-> {JStr(<< >>), JStr(<<"8">>)}]

\* override stems next to keys the transforms of their labels produce
OverrideFlat ==
    << <<<<"b", "u", "s", "i", "n", "e", "s", "s", "_", "t", "r", "a", "d", "e", "_", "n", "a", "m", "e">>, JStr(<<"A", "c", "m", "e", " ", "I", "n", "c">>)>>,
       <<<<"c", "o", "r", "p", "o", "r", "a", "t", "e", "_", "n", "a", "m", "e">>, JStr(<<"C", "o">>)>>,
       <<<<"C", "o", "r", "p", "o", "r", "a", "t", "e", "_", "N", "a", "m", "e">>, JStr(<<"C", "x">>)>>,
       <<<<"u", "b", "o", "_", "n", "a", "m", "e">>, JStr(<<"A", "l">>)>>,
       <<<<"U", "B", "O", "_", "N", "a", "m", "e">>, JStr(<<"B", "o">>)>> >>
OverrideFamily ==
    [flat |-> OverrideFlat, columns |-> TwoColumns,
     labels |-> {JStr(Label_Corporate_Name), JStr(Label_UBO_Name)},
     truths |-> {JStr(Text_Acme_Inc)}]

\* ground truths at and around the two similarity thresholds
Text_Ten == <<"a", "b", "c", "d", "e", "f", "g", "h", "i", "j">>
Text_Ten_OneOff == <<"a", "b", "c", "d", "e", "f", "g", "h", "i", "X">>
Text_Ten_ThreeOff == <<"a", "b", "c", "d", "e", "f", "g", "X", "Y", "Z">>
ThresholdFlat == << <<<<"t", "a", "x", "_", "c", "o", "d", "e">>, JStr(Text_Ten)>> >>
ThresholdFamily ==
    [flat |-> ThresholdFlat, columns |-> TwoColumns,
     labels |-> {JStr(Label_Tax_Code)},
     truths |-> {JStr(Text_Ten), JStr(Text_Ten_OneOff), JStr(Text_Ten_ThreeOff),
                 JStr(<<"A", "B", "C", "D", "E", "F", "G", "H", "I", "J">>), JStr(<<"a", "b", "c", "d", "e", "f", "g", "h", "i", "j", "k">>),
                 JStr(<<"a", "b", "c", "d", "e", "f", "g", "h", "X", "Y">>), JStr(<< >>), JStr(<<"z", "z">>)}]

\* tables one row longer, two labels and a blank one: A, B, A and A, blank, A
LongFamily ==
    [flat |-> BlankFlat, columns |-> TwoColumns,
     labels |-> {JStr(Label_Tax_Code), JStr(Label_Corporate_Name), JStr(<<" ">>)},
     truths |-> {JStr(<<"x">>)}]
LongFamilies == {LongFamily}

\* null synonyms as resolved values and as ground truths, and missing cells
Text_NA == <<"N", "/", "A">>
NullWordFlat ==
    << <<<<"t", "a", "x", "_", "c", "o", "d", "e">>, JStr(Text_NA)>>,
       <<<<"t", "a", "x", "c", "o", "d", "e">>, JStr(<<" ", "n", "u", "l", "l", " ">>)>> >>
NullWordFamily ==
    [flat |-> NullWordFlat, columns |-> TwoColumns,
     labels |-> {JStr(Label_Tax_Code)},
     truths |-> {JStr(<< >>), JStr(Text_NA), JStr(<<"n", "/", "a">>), JStr(<<"n", "u", "l", "l">>), JNull, JNaN}]

ReconcileFamilies ==
    {RepeatableFamily, SingleEntryFamily, PlainFamily, BlankFamily,
     EmptyOverrideFamily, OverrideFamily, ThresholdFamily, NullWordFamily}
        \cup LayoutFamilies \cup LongFamilies

InitReconcile ==
    /\ pc = "start"
    /\ json_data = JNull
    /\ result = NoResult
    /\ prev_result = NoResult
    /\ raised = ""
    /\ calls = 0
    /\ field_name = << >>
    /\ \E family \in ReconcileFamilies :
        /\ flattened_data \in SubMaps(family.flat)
        /\ ground_truth_df \in
               Tables(family.columns, family.labels, family.truths,
                      IF family \in LongFamilies THEN MaxRows + 1 ELSE MaxRows)
    /\ row_index = 0
    /\ field_counters = << >>
    /\ comparison_results = << >>
    /\ st_errors = << >>

NextReconcile ==
    \/ CompareNoFieldColumn
    \/ CompareNoValueColumn
    \/ CompareBegin
    \/ CompareSkipRow
    \/ CompareBadLabel
    \/ CompareEmitRow
    \/ CompareReturn

SpecReconcile == InitReconcile /\ [][NextReconcile]_vars


(***************************************************************************)
(* Reference for the lookup rules, read off the ground-truth table: the    *)
(* labels of the rows that count, their occurrence numbers, the override   *)
(* of a label and the two prefix lists.                                    *)
(***************************************************************************)
IsBlankText(s) == \A i \in 1..Len(s) : s[i] \in Whitespace

\* the labels of the non-blank rows among the first n rows, in table order
RECURSIVE CountedLabels(_, _)
CountedLabels(rows, n) ==
    IF n = 0 THEN << >>
    ELSE LET cell == rows[n]["Field"]
         IN  IF cell.t = "str" /\ ~IsBlankText(cell.v)
             THEN Append(CountedLabels(rows, n - 1), cell.v)
             ELSE CountedLabels(rows, n - 1)

\* the labels of the rows emitted so far
EmittedLabels == CountedLabels(ground_truth_df.rows, row_index)

\* the 1-based occurrence number of the k-th label among the labels before it
OccurrenceOf(labels, k) == Cardinality({j \in 1..k : labels[j] = labels[k]})

\* the override stem of a label: the last entry of the table literal, "" if none
RefOverride(name) ==
    LET hits == {i \in 1..Len(field_mappings_items) : field_mappings_items[i][1] = name}
    IN  IF hits = {} THEN << >> ELSE field_mappings_items[SetMax(hits)][2]

HasPrefix(s, p) == Len(s) >= Len(p) /\ SubSeq(s, 1, Len(p)) = p

RefRepeatable(name) ==
    \E p \in {<<"D", "i", "r", "e", "c", "t", "o", "r", "/", "O", "f", "f", "i", "c", "e", "r">>,
              <<"S", "t", "o", "c", "k", "h", "o", "l", "d", "e", "r">>,
              <<"A", "M", "L", "A", " ", "C", "a", "t", "e", "g", "o", "r", "y">>} : HasPrefix(name, p)

RefSingleEntry(name) ==
    \E i \in 1..Len(single_entry_fields) : HasPrefix(name, single_entry_fields[i])

RefHasKey(flat, key) == \E i \in 1..Len(flat) : flat[i][1] = key
RefValueAt(flat, key) == flat[CHOOSE i \in 1..Len(flat) : flat[i][1] = key][2]

\* the numbered key of the k-th emitted row
RefNumberedKey(labels, k) ==
    LET stem == IF RefOverride(labels[k]) # << >>
                THEN RefOverride(labels[k]) ELSE RefComprehensive(labels[k])
    IN  stem \o <<"_">> \o str_int(OccurrenceOf(labels, k))

TableOfTwo(label) ==
    /\ ground_truth_df.columns = TwoColumns
    /\ Len(ground_truth_df.rows) = 2
    /\ \A i \in 1..2 : ground_truth_df.rows[i]["Field"] = JStr(label)

Flat_Alice_Bob == SubSeq(RepeatableFlat, 1, 2)
Flat_Acme == SubSeq(SingleEntryFlat, 1, 1)

\* C9: for a label under a repeatable prefix ("Director/Officer",
\* "Stockholder", "AMLA Category"), the N-th occurrence of the label resolves
\* to the (normalized) value of the flat map at stem_N whenever that key is
\* present, whatever other candidate keys the map holds; the stem is the
\* non-empty override of the label or else its comprehensive transform.  With
\* {"stockholder_name_1": "Alice", "stockholder_name_2": "Bob"} two rows
\* labelled "Stockholder_Name" resolve to "Alice" and "Bob".
C9_NumberedKeyWins ==
    /\ \A k \in 1..Len(comparison_results) :
         LET key == RefNumberedKey(EmittedLabels, k)
         IN  RefRepeatable(EmittedLabels[k]) /\ RefHasKey(flattened_data, key)
             => comparison_results[k].JSON_Value
                    = normalize_value(RefValueAt(flattened_data, key))
    /\ (pc = "done" /\ flattened_data = Flat_Alice_Bob /\ TableOfTwo(Label_Stockholder_Name))
       => /\ Len(result.v) = 2
          /\ result.v[1].JSON_Value = Text_Alice
          /\ result.v[2].JSON_Value = Text_Bob

\* two "Stockholder_Name" rows against a map that holds the numbered keys and
\* also the exact label and the plain stem: the numbered keys are the ones read
C9_Witness ==
    /\ pc = "done"
    /\ flattened_data = RepeatableFlat
    /\ TableOfTwo(Label_Stockholder_Name)
    /\ result.v[1].JSON_Value = Text_Alice
    /\ result.v[2].JSON_Value = Text_Bob
    /\ result.v[2].Field = Label_Stockholder_Name \o <<" ", "(", "2", ")">>

\* C10: for a label that equals or starts with an entry of the single-entry
\* list, every occurrence after the first resolves to "" whatever the flat map
\* holds, and the row is Missing in JSON when its ground truth is non-empty,
\* Perfect Match when it is empty, never Mismatch.  With
\* {"business_trade_name": "Acme Inc"} and the rows ("Corporate Name",
\* "Acme Inc"), ("Corporate Name", "Should Be Empty"), row 1 is
\* "Acme Inc" / Perfect Match and row 2 is "" / Missing in JSON.
C10_SingleEntryRepeatsAreEmpty ==
    /\ \A k \in 1..Len(comparison_results) :
         RefSingleEntry(EmittedLabels[k]) /\ OccurrenceOf(EmittedLabels, k) > 1
         => /\ comparison_results[k].JSON_Value = << >>
            /\ comparison_results[k].Status # "Mismatch"
            /\ comparison_results[k].Status =
                   IF comparison_results[k].Ground_Truth # << >>
                   THEN "Missing in JSON" ELSE "Perfect Match"
    /\ ( /\ pc = "done"
         /\ flattened_data = Flat_Acme
         /\ TableOfTwo(Label_Corporate_Name)
         /\ ground_truth_df.rows[1]["Value"] = JStr(Text_Acme_Inc)
         /\ ground_truth_df.rows[2]["Value"] = JStr(Text_Should_Be_Empty) )
       => /\ Len(result.v) = 2
          /\ result.v[1].JSON_Value = Text_Acme_Inc
          /\ result.v[1].Status = "Perfect Match"
          /\ result.v[2].JSON_Value = << >>
          /\ result.v[2].Status = "Missing in JSON"

\* the second "Corporate Name" row of the example: the map holds the key that
\* resolved the first row, and the second row is empty and Missing in JSON
C10_Witness ==
    /\ pc = "done"
    /\ flattened_data = Flat_Acme
    /\ TableOfTwo(Label_Corporate_Name)
    /\ ground_truth_df.rows[1]["Value"] = JStr(Text_Acme_Inc)
    /\ ground_truth_df.rows[2]["Value"] = JStr(Text_Should_Be_Empty)
    /\ result.v[1].Status = "Perfect Match"
    /\ result.v[2].JSON_Value = << >>
    /\ result.v[2].Status = "Missing in JSON"


\* the label has an override entry and the entry is the empty string
RefEmptyOverride(name) ==
    /\ \E i \in 1..Len(field_mappings_items) : field_mappings_items[i][1] = name
    /\ RefOverride(name) = << >>

\* C11: a label whose override entry is the empty string ("Unrestricted
\* Retained Earnings (PHP)") resolves to "" on every occurrence, also when the
\* flat map holds the exact label or a key one of its transforms produces.
C11_EmptyOverrideIsAbsent ==
    \A k \in 1..Len(comparison_results) :
        RefEmptyOverride(EmittedLabels[k]) => comparison_results[k].JSON_Value = << >>

\* two rows of the label against a map that holds the exact label, the
\* comprehensive transform and the light transform
C11_Witness ==
    /\ pc = "done"
    /\ flattened_data = EmptyOverrideFlat
    /\ RefHasKey(flattened_data, Label_Unrestricted)
    /\ RefHasKey(flattened_data, RefComprehensive(Label_Unrestricted))
    /\ RefHasKey(flattened_data, RefLight(Label_Unrestricted))
    /\ TableOfTwo(Label_Unrestricted)
    /\ result.v[1].JSON_Value = << >>
    /\ result.v[2].JSON_Value = << >>


\* the keys the four textual transforms of a label produce
RefTransformKeys(name) ==
    {RefComprehensive(name), RefLight(name), RefSnake(name), RefNoSpace(name)}

\* the k-th emitted label has a non-empty override stem, and the flat map
\* holds the stem and a key produced by a transform of the label
StemAndTransformPresent(k) ==
    /\ RefOverride(EmittedLabels[k]) # << >>
    /\ RefHasKey(flattened_data, RefOverride(EmittedLabels[k]))
    /\ \E t \in RefTransformKeys(EmittedLabels[k]) : RefHasKey(flattened_data, t)

StemValue(k) == normalize_value(RefValueAt(flattened_data, RefOverride(EmittedLabels[k])))

\* C12 as stated: whenever the stem and a transform-produced key are both
\* in the flat map, the resolved value is the one under the stem.
C12_Original_StemBeatsTransforms ==
    \A k \in 1..Len(comparison_results) :
        StemAndTransformPresent(k) => comparison_results[k].JSON_Value = StemValue(k)

\* C12: when the stem and a transform-produced key are both in the flat map,
\* the resolved value is the (normalized) one under the override stem,
\* provided no earlier rule applies: the exact label is not a key of the map
\* (which covers a transform that returns the label unchanged), the row is
\* not a repeat of a single-entry label, and for a repeatable label the
\* numbered key is not in the map.
C12_StemBeatsTransformsAfterEarlierRules ==
    \A k \in 1..Len(comparison_results) :
        ( /\ StemAndTransformPresent(k)
          /\ ~RefHasKey(flattened_data, EmittedLabels[k])
          /\ ~(RefSingleEntry(EmittedLabels[k]) /\ OccurrenceOf(EmittedLabels, k) > 1)
          /\ ~(RefRepeatable(EmittedLabels[k])
               /\ RefHasKey(flattened_data, RefNumberedKey(EmittedLabels, k))) )
        => comparison_results[k].JSON_Value = StemValue(k)

\* "Corporate Name": the stem business_trade_name differs from every
\* transform; the map holds the stem, the comprehensive and the light key
C12_Witness ==
    /\ pc = "done"
    /\ flattened_data = SubSeq(OverrideFlat, 1, 3)
    /\ RefOverride(Label_Corporate_Name) \notin RefTransformKeys(Label_Corporate_Name)
    /\ RefHasKey(flattened_data, RefComprehensive(Label_Corporate_Name))
    /\ RefHasKey(flattened_data, RefLight(Label_Corporate_Name))
    /\ Len(result.v) = 1
    /\ EmittedLabels = <<Label_Corporate_Name>>
    /\ result.v[1].JSON_Value = Text_Acme_Inc


\* the ratio of two texts compared without case, as a fraction
RefSimilarity(a, b) == sequence_matcher_ratio(str_lower(a), str_lower(b))

\* the five-way classification, first match wins
RefStatus(value, truth) ==
    CASE value = truth -> "Perfect Match"
      [] value # truth /\ 10 * RefSimilarity(value, truth).num > 9 * RefSimilarity(value, truth).den
            -> "Very Close"
      [] value # truth /\ 10 * RefSimilarity(value, truth).num <= 9 * RefSimilarity(value, truth).den
                       /\ 10 * RefSimilarity(value, truth).num > 7 * RefSimilarity(value, truth).den
            -> "Similar"
      [] value # truth /\ 10 * RefSimilarity(value, truth).num <= 7 * RefSimilarity(value, truth).den
                       /\ value = << >>
            -> "Missing in JSON"
      [] OTHER -> "Mismatch"

\* C13: every row is classified by the precedence exact equality, similarity
\* above 0.9, similarity above 0.7, empty resolved value, mismatch; two empty
\* strings are Perfect Match, and a similarity of exactly 0.9 is Similar, of
\* exactly 0.7 is Mismatch (or Missing in JSON).
C13_StatusPrecedence ==
    \A k \in 1..Len(comparison_results) :
        LET row == comparison_results[k]
            sim == RefSimilarity(row.JSON_Value, row.Ground_Truth)
        IN  /\ row.Status = RefStatus(row.JSON_Value, row.Ground_Truth)
            /\ (row.JSON_Value = << >> /\ row.Ground_Truth = << >>) => row.Status = "Perfect Match"
            /\ 10 * sim.num = 9 * sim.den => row.Status = "Similar"
            /\ 10 * sim.num = 7 * sim.den => row.Status \in {"Mismatch", "Missing in JSON"}

\* one row at exactly 0.9 and one at exactly 0.7
C13_Witness ==
    /\ pc = "done"
    /\ Len(result.v) = 2
    /\ result.v[1].JSON_Value = Text_Ten /\ result.v[1].Ground_Truth = Text_Ten_OneOff
    /\ 10 * RefSimilarity(Text_Ten, Text_Ten_OneOff).num = 9 * RefSimilarity(Text_Ten, Text_Ten_OneOff).den
    /\ result.v[1].Status = "Similar"
    /\ result.v[2].JSON_Value = Text_Ten /\ result.v[2].Ground_Truth = Text_Ten_ThreeOff
    /\ 10 * RefSimilarity(Text_Ten, Text_Ten_ThreeOff).num = 7 * RefSimilarity(Text_Ten, Text_Ten_ThreeOff).den
    /\ result.v[2].Status = "Mismatch"


\* the number of rows emitted so far for a label
RefCount(name) == Cardinality({j \in 1..Len(EmittedLabels) : EmittedLabels[j] = name})

\* the Field shown for the n-th occurrence of a label
RefDisplayField(name, n) ==
    IF n = 1 THEN name ELSE name \o <<" ", "(">> \o str_int(n) \o <<")">>

\* C14: after any prefix of the rows, the counter of each label is the
\* number of non-blank rows seen so far with exactly that label (a label not
\* yet seen has no counter), and the Field of each emitted row is the bare
\* label at count 1 and the label followed by " (N)" at count N > 1.
C14_CountersAndDisplayField ==
    /\ \A i \in 1..Len(field_counters) :
           /\ field_counters[i][2] = RefCount(field_counters[i][1])
           /\ field_counters[i][2] >= 1
           /\ \A j \in 1..Len(field_counters) : field_counters[j][1] = field_counters[i][1] => j = i
    /\ \A k \in 1..Len(EmittedLabels) :
           \E i \in 1..Len(field_counters) : field_counters[i][1] = EmittedLabels[k]
    /\ pc \in {"loop", "done"} /\ raised = "" /\ Len(value_columns(ground_truth_df)) >= 1
         /\ "Field" \in SeqRange(ground_truth_df.columns)
       => /\ Len(comparison_results) = Len(EmittedLabels)
          /\ \A k \in 1..Len(comparison_results) :
                 comparison_results[k].Field =
                     RefDisplayField(EmittedLabels[k], OccurrenceOf(EmittedLabels, k))

\* the labels A, B, A: counters 2 and 1, the third row shown as "A (2)"
C14_Witness ==
    /\ pc = "done"
    /\ Len(ground_truth_df.rows) = 3
    /\ EmittedLabels = <<Label_Tax_Code, Label_Corporate_Name, Label_Tax_Code>>
    /\ field_counters = << <<Label_Tax_Code, 2>>, <<Label_Corporate_Name, 1>> >>
    /\ result.v[1].Field = Label_Tax_Code
    /\ result.v[2].Field = Label_Corporate_Name
    /\ result.v[3].Field = Label_Tax_Code \o <<" ", "(", "2", ")">>


\* a label cell that is empty, whitespace-only or missing (None, or the NaN
\* a blank cell of a CSV or Excel sheet is read as)
RefBlankOrMissing(cell) ==
    \/ cell.t \in {"null", "nan"}
    \/ cell.t = "str" /\ IsBlankText(cell.v)

\* the indices of the rows with a non-blank text label among the first n rows
RefCountedRows(n) ==
    SelectSeq([i \in 1..n |-> i],
              LAMBDA i : /\ ground_truth_df.rows[i]["Field"].t = "str"
                         /\ ~IsBlankText(ground_truth_df.rows[i]["Field"].v))

\* the pass is reading rows
InLoop ==
    /\ pc = "loop"
    /\ row_index < Len(ground_truth_df.rows)

\* one output row per non-blank label read so far, in the input order
OneRowPerCountedRow ==
    pc = "loop" =>
        /\ Len(comparison_results) = Len(RefCountedRows(row_index))
        /\ \A k \in 1..Len(comparison_results) :
               LET row == ground_truth_df.rows[RefCountedRows(row_index)[k]]
               IN  /\ comparison_results[k].Field =
                          RefDisplayField(row["Field"].v, OccurrenceOf(EmittedLabels, k))
                   /\ comparison_results[k].Ground_Truth = normalize_cell(row[truth_col])

\* reading a row with a blank or missing label moves to the next row and
\* changes nothing else
BlankRowIsSkipped ==
    InLoop /\ RefBlankOrMissing(NextRow["Field"])
    => /\ row_index' = row_index + 1
       /\ pc' = "loop"
       /\ raised' = ""
       /\ field_counters' = field_counters
       /\ comparison_results' = comparison_results

\* reading a row with a non-blank label appends exactly one output row
NonBlankRowIsEmitted ==
    InLoop /\ ~RefBlankOrMissing(NextRow["Field"]) /\ NextRow["Field"].t = "str"
    => /\ row_index' = row_index + 1
       /\ Len(comparison_results') = Len(comparison_results) + 1
       /\ SubSeq(comparison_results', 1, Len(comparison_results)) = comparison_results

\* C15 as stated: exactly one comparison row per ground-truth row with a
\* non-blank label, in the input order; a row whose label is empty,
\* whitespace-only or missing is skipped without error, adds no output row
\* and changes no occurrence counter.
C15_Original_BlankRowsSkipped ==
    /\ []OneRowPerCountedRow
    /\ [][BlankRowIsSkipped /\ NonBlankRowIsEmitted]_vars

\* what holds: the same with "missing" read as None only
RefBlankOrNone(cell) ==
    \/ cell.t = "null"
    \/ cell.t = "str" /\ IsBlankText(cell.v)

C15_BlankOrNoneRowsSkipped ==
    /\ []OneRowPerCountedRow
    /\ [][(InLoop /\ RefBlankOrNone(NextRow["Field"])
            => /\ row_index' = row_index + 1
               /\ pc' = "loop"
               /\ raised' = ""
               /\ field_counters' = field_counters
               /\ comparison_results' = comparison_results)
          /\ NonBlankRowIsEmitted]_vars

\* a blank label and a None label between two rows of one label: two output
\* rows, the second shown as the second occurrence
C15_Witness ==
    /\ pc = "done"
    /\ raised = ""
    /\ Len(ground_truth_df.rows) = 3
    /\ ground_truth_df.rows[1]["Field"] = JStr(Label_Tax_Code)
    /\ ground_truth_df.rows[2]["Field"] = JStr(<<" ">>)
    /\ ground_truth_df.rows[3]["Field"] = JStr(Label_Tax_Code)
    /\ Len(result.v) = 2
    /\ result.v[2].Field = Label_Tax_Code \o <<" ", "(", "2", ")">>
    /\ field_counters = << <<Label_Tax_Code, 2>> >>

\* a missing label read as NaN ends the pass with an AttributeError
C15_MissingLabelRaises ==
    /\ pc = "done"
    /\ raised = "AttributeError"
    /\ NextRow["Field"] = JNaN


\* a text without its leading and trailing whitespace
RefTrim(s) ==
    LET keep == {i \in 1..Len(s) : s[i] \notin Whitespace}
    IN  IF keep = {} THEN << >> ELSE SubSeq(s, SetMin(keep), SetMax(keep))

\* the labels the lookup treats by the plain candidate list only
RefPlainLabel(name) ==
    /\ \A i \in 1..Len(field_mappings_items) : field_mappings_items[i][1] # name
    /\ ~RefRepeatable(name)
    /\ ~RefSingleEntry(name)

\* the raw value the plain candidate list finds, JNull when it finds none
RefFoundRaw(name) ==
    LET hits == {i \in 1..5 : RefHasKey(flattened_data, RefCandidates(name)[i])}
    IN  IF hits = {} THEN JNull
        ELSE RefValueAt(flattened_data, RefCandidates(name)[SetMin(hits)])

\* the ground-truth cell of the k-th emitted row
RefTruthCell(k) == ground_truth_df.rows[RefCountedRows(row_index)[k]][truth_col]

\* the resolved side: null or absent is "", everything else its trimmed text
ResolvedSideNormalized ==
    \A k \in 1..Len(comparison_results) :
        RefPlainLabel(EmittedLabels[k]) =>
            comparison_results[k].JSON_Value =
                (IF RefFoundRaw(EmittedLabels[k]).t = "null" THEN << >>
                 ELSE RefTrim(py_str(RefFoundRaw(EmittedLabels[k]))))

\* no synonym is folded and the comparison is verbatim: a row is a Perfect
\* Match exactly when the two normalized texts are the same text
ComparedVerbatim ==
    \A k \in 1..Len(comparison_results) :
        /\ comparison_results[k].Status = "Perfect Match"
               <=> comparison_results[k].JSON_Value = comparison_results[k].Ground_Truth
        /\ RefPlainLabel(EmittedLabels[k]) /\ RefFoundRaw(EmittedLabels[k]) = JStr(Text_NA)
               => /\ comparison_results[k].JSON_Value = Text_NA
                  /\ RefTruthCell(k) \in {JStr(<< >>), JNull, JStr(<<"n", "/", "a">>)}
                         => comparison_results[k].Status # "Perfect Match"
        /\ RefTruthCell(k) = JStr(Text_NA)
               => /\ comparison_results[k].Ground_Truth = Text_NA
                  /\ comparison_results[k].JSON_Value = << >>
                         => comparison_results[k].Status # "Perfect Match"

\* C16 as stated: a null or missing value becomes the empty string on both
\* sides, everything else is trimmed, and no null synonym is folded ("N/A",
\* "null", "none" stay and are compared verbatim and case-sensitively).
C16_Original_MissingIsEmpty ==
    pc = "loop" =>
        /\ ResolvedSideNormalized
        /\ ComparedVerbatim
        /\ \A k \in 1..Len(comparison_results) :
               comparison_results[k].Ground_Truth =
                   (IF RefTruthCell(k).t \in {"null", "nan"} THEN << >>
                    ELSE RefTrim(py_str(RefTruthCell(k))))

\* what holds: the same, with a missing ground-truth cell (NaN) shown as "nan"
C16_NoneIsEmpty ==
    pc = "loop" =>
        /\ ResolvedSideNormalized
        /\ ComparedVerbatim
        /\ \A k \in 1..Len(comparison_results) :
               comparison_results[k].Ground_Truth =
                   (IF RefTruthCell(k).t = "null" THEN << >>
                    ELSE IF RefTruthCell(k).t = "nan" THEN <<"n", "a", "n">>
                    ELSE RefTrim(py_str(RefTruthCell(k))))

\* a blank ground-truth cell against a key the map does not hold: the row
\* shows "nan" and is Missing in JSON
C16_MissingTruthIsNan ==
    /\ pc = "done"
    /\ flattened_data = << >>
    /\ Len(ground_truth_df.rows) = 1
    /\ ground_truth_df.rows[1] = MakeRow(TwoColumns, JStr(Label_Tax_Code), JNaN)
    /\ result.v[1].JSON_Value = << >>
    /\ result.v[1].Ground_Truth = <<"n", "a", "n">>
    /\ result.v[1].Status = "Missing in JSON"


\* the table lacks the "Field" column or a value column besides it
RefBadLayout ==
    \/ "Field" \notin SeqRange(ground_truth_df.columns)
    \/ \A i \in 1..Len(ground_truth_df.columns) : ground_truth_df.columns[i] = "Field"

\* C17 as stated: with no "Field" column or no value column the call fails
\* with a typed InputError surfaced to the caller; the error is not swallowed
\* and no comparison table is returned as a normal result.
C17_Original_InputErrorRaised ==
    pc = "done" /\ RefBadLayout =>
        /\ raised = "InputError"
        /\ result = NoResult

\* what the code does: it reports through st.error and returns an empty table
C17_ErrorShownEmptyTableReturned ==
    pc = "done" /\ RefBadLayout =>
        /\ raised = ""
        /\ result = DataFrame(<< >>)
        /\ Len(st_errors) = 1

\* a table without a "Field" column: the call returns an empty table normally
C17_NoFieldColumnReturnsEmpty ==
    /\ pc = "done"
    /\ ground_truth_df.columns = <<"Value">>
    /\ Len(ground_truth_df.rows) = 1
    /\ raised = ""
    /\ result = DataFrame(<< >>)
    /\ st_errors = <<"Ground truth data must have a 'Field' column">>


(***************************************************************************)
(* map_sec_gis_fields (gisv2_app.py:184-338).  The catalog is the sequence *)
(* of assignments field_mapping[label] = data.get(key, ""), in program     *)
(* order: a dict literal, the Director/Officer loop, an update, the        *)
(* Stockholder loop, an update.  A label assigned twice keeps its first    *)
(* position and its last value.  The values of the input are scalars.      *)
(***************************************************************************)
\* lines 194-260: the labels and the keys they read, as written
gis_first_items ==
    << <<<<"D", "o", "c", "u", "m", "e", "n", "t", " ", "T", "y", "p", "e">>,
         <<"d", "o", "c", "u", "m", "e", "n", "t", "_", "t", "y", "p", "e">>>>,
       <<<<"F", "o", "r", " ", "t", "h", "e", " ", "y", "e", "a", "r">>,
         <<"f", "o", "r", "_", "t", "h", "e", "_", "y", "e", "a", "r">>>>,
       <<<<"C", "o", "r", "p", "o", "r", "a", "t", "e", " ", "N", "a", "m", "e">>,
         <<"b", "u", "s", "i", "n", "e", "s", "s", "_", "t", "r", "a", "d", "e", "_", "n", "a", "m", "e">>>>,
       <<<<"B", "u", "s", "i", "n", "e", "s", "s", "/", "T", "r", "a", "d", "e", " ", "N", "a", "m", "e">>,
         <<"b", "u", "s", "i", "n", "e", "s", "s", "_", "t", "r", "a", "d", "e", "_", "n", "a", "m", "e">>>>,
       <<<<"D", "a", "t", "e", " ", "R", "e", "g", "i", "s", "t", "e", "r", "e", "d">>,
         <<"d", "a", "t", "e", "_", "r", "e", "g", "i", "s", "t", "e", "r", "e", "d">>>>,
       <<<<"F", "i", "s", "c", "a", "l", " ", "Y", "e", "a", "r", " ", "E", "n", "d">>,
         <<"f", "i", "s", "c", "a", "l", "_", "y", "e", "a", "r", "_", "e", "n", "d">>>>,
       <<<<"S", "E", "C", " ", "R", "e", "g", "i", "s", "t", "r", "a", "t", "i", "o", "n", " ", "N", "u", "m", "b", "e", "r">>,
         <<"s", "e", "c", "_", "r", "e", "g", "i", "s", "t", "r", "a", "t", "i", "o", "n", "_", "n", "u", "m", "b", "e", "r">>>>,
       <<<<"C", "o", "r", "p", "o", "r", "a", "t", "e", " ", "T", "I", "N">>,
         <<"c", "o", "r", "p", "o", "r", "a", "t", "e", "_", "t", "i", "n">>>>,
       <<<<"W", "e", "b", "s", "i", "t", "e", "/", "U", "R", "L">>,
         <<"w", "e", "b", "s", "i", "t", "e", "_", "u", "r", "l">>>>,
       <<<<"P", "r", "i", "n", "c", "i", "p", "a", "l", " ", "O", "f", "f", "i", "c", "e", " ", "A", "d", "d", "r", "e", "s", "s">>,
         <<"p", "r", "i", "n", "c", "i", "p", "a", "l", "_", "o", "f", "f", "i", "c", "e", "_", "a", "d", "d", "r", "e", "s", "s">>>>,
       <<<<"B", "u", "s", "i", "n", "e", "s", "s", " ", "A", "d", "d", "r", "e", "s", "s">>,
         <<"b", "u", "s", "i", "n", "e", "s", "s", "_", "a", "d", "d", "r", "e", "s", "s">>>>,
       <<<<"O", "f", "f", "i", "c", "i", "a", "l", " ", "e", "-", "m", "a", "i", "l", " ", "a", "d", "d", "r", "e", "s", "s">>,
         <<"o", "f", "f", "i", "c", "i", "a", "l", "_", "e", "m", "a", "i", "l">>>>,
       <<<<"A", "l", "t", "e", "r", "n", "a", "t", "e", " ", "E", "m", "a", "i", "l", " ", "A", "d", "d", "r", "e", "s", "s">>,
         <<"a", "l", "t", "e", "r", "n", "a", "t", "e", "_", "e", "m", "a", "i", "l">>>>,
       <<<<"O", "f", "f", "i", "c", "i", "a", "l", " ", "M", "o", "b", "i", "l", "e", " ", "N", "u", "m", "b", "e", "r">>,
         <<"o", "f", "f", "i", "c", "i", "a", "l", "_", "m", "o", "b", "i", "l", "e">>>>,
       <<<<"A", "l", "t", "e", "r", "n", "a", "t", "e", " ", "M", "o", "b", "i", "l", "e", " ", "N", "u", "m", "b", "e", "r">>,
         <<"a", "l", "t", "e", "r", "n", "a", "t", "e", "_", "m", "o", "b", "i", "l", "e">>>>,
       <<<<"P", "r", "i", "m", "a", "r", "y", " ", "P", "u", "r", "p", "o", "s", "e", "/", "I", "n", "d", "u", "s", "t", "r", "y">>,
         <<"p", "r", "i", "m", "a", "r", "y", "_", "p", "u", "r", "p", "o", "s", "e", "_", "i", "n", "d", "u", "s", "t", "r", "y">>>>,
       <<<<"I", "n", "d", "u", "s", "t", "r", "y", " ", "C", "l", "a", "s", "s", "i", "f", "i", "c", "a", "t", "i", "o", "n">>,
         <<"i", "n", "d", "u", "s", "t", "r", "y", "_", "c", "l", "a", "s", "s", "i", "f", "i", "c", "a", "t", "i", "o", "n">>>>,
       <<<<"G", "e", "o", "g", "r", "a", "p", "h", "i", "c", "a", "l", " ", "C", "o", "d", "e">>,
         <<"g", "e", "o", "g", "r", "a", "p", "h", "i", "c", "a", "l", "_", "c", "o", "d", "e">>>>,
       <<<<"P", "a", "r", "e", "n", "t", " ", "C", "o", "m", "p", "a", "n", "y", " ", "N", "a", "m", "e">>,
         <<"p", "a", "r", "e", "n", "t", "_", "c", "o", "m", "p", "a", "n", "y", "_", "n", "a", "m", "e">>>>,
       <<<<"P", "a", "r", "e", "n", "t", " ", "C", "o", "m", "p", "a", "n", "y", " ", "S", "E", "C", " ", "R", "e", "g", ".", " ", "N", "o", ".">>,
         <<"p", "a", "r", "e", "n", "t", "_", "c", "o", "m", "p", "a", "n", "y", "_", "s", "e", "c", "_", "r", "e", "g", "_", "n", "o">>>>,
       <<<<"P", "a", "r", "e", "n", "t", " ", "C", "o", "m", "p", "a", "n", "y", " ", "A", "d", "d", "r", "e", "s", "s">>,
         <<"p", "a", "r", "e", "n", "t", "_", "c", "o", "m", "p", "a", "n", "y", "_", "a", "d", "d", "r", "e", "s", "s">>>>,
       <<<<"S", "u", "b", "s", "i", "d", "i", "a", "r", "y", "/", "A", "f", "f", "i", "l", "i", "a", "t", "e">>,
         <<"s", "u", "b", "s", "i", "d", "i", "a", "r", "y", "_", "a", "f", "f", "i", "l", "i", "a", "t", "e">>>>,
       <<<<"S", "u", "b", "s", "i", "d", "i", "a", "r", "y", "/", "A", "f", "f", "i", "l", "i", "a", "t", "e", " ", "S", "E", "C", " ", "R", "e", "g", ".", " ", "N", "o", ".">>,
         <<"s", "u", "b", "s", "i", "d", "i", "a", "r", "y", "_", "a", "f", "f", "i", "l", "i", "a", "t", "e", "_", "s", "e", "c", "_", "r", "e", "g", "_", "n", "o">>>>,
       <<<<"S", "u", "b", "s", "i", "d", "i", "a", "r", "y", "/", "A", "f", "f", "i", "l", "i", "a", "t", "e", " ", "A", "d", "d", "r", "e", "s", "s">>,
         <<"s", "u", "b", "s", "i", "d", "i", "a", "r", "y", "_", "a", "f", "f", "i", "l", "i", "a", "t", "e", "_", "a", "d", "d", "r", "e", "s", "s">>>>,
       <<<<"E", "x", "t", "e", "r", "n", "a", "l", " ", "A", "u", "d", "i", "t", "o", "r">>,
         <<"e", "x", "t", "e", "r", "n", "a", "l", "_", "a", "u", "d", "i", "t", "o", "r">>>>,
       <<<<"A", "u", "d", "i", "t", "o", "r", " ", "S", "E", "C", " ", "A", "c", "c", "r", "e", "d", "i", "t", "a", "t", "i", "o", "n", " ", "N", "u", "m", "b", "e", "r">>,
         <<"a", "u", "d", "i", "t", "o", "r", "_", "s", "e", "c", "_", "a", "c", "c", "r", "e", "d", "i", "t", "a", "t", "i", "o", "n", "_", "n", "u", "m", "b", "e", "r">>>>,
       <<<<"C", "o", "v", "e", "r", "e", "d", " ", "P", "e", "r", "s", "o", "n", " ", "(", "A", "M", "L", ")">>,
         <<"c", "o", "v", "e", "r", "e", "d", "_", "p", "e", "r", "s", "o", "n", "_", "a", "m", "l">>>>,
       <<<<"A", "M", "L", "A", " ", "C", "a", "t", "e", "g", "o", "r", "y", " ", "1">>,
         <<"a", "m", "l", "a", "_", "c", "a", "t", "e", "g", "o", "r", "y", "_", "1">>>>,
       <<<<"A", "M", "L", "A", " ", "C", "a", "t", "e", "g", "o", "r", "y", " ", "2">>,
         <<"a", "m", "l", "a", "_", "c", "a", "t", "e", "g", "o", "r", "y", "_", "2">>>>,
       <<<<"A", "M", "L", "A", " ", "C", "a", "t", "e", "g", "o", "r", "y", " ", "3">>,
         <<"a", "m", "l", "a", "_", "c", "a", "t", "e", "g", "o", "r", "y", "_", "3">>>>,
       <<<<"A", "M", "L", "A", " ", "C", "a", "t", "e", "g", "o", "r", "y", " ", "4">>,
         <<"a", "m", "l", "a", "_", "c", "a", "t", "e", "g", "o", "r", "y", "_", "4">>>>,
       <<<<"A", "M", "L", "A", " ", "C", "a", "t", "e", "g", "o", "r", "y", " ", "5">>,
         <<"a", "m", "l", "a", "_", "c", "a", "t", "e", "g", "o", "r", "y", "_", "5">>>>,
       <<<<"A", "M", "L", "A", " ", "C", "a", "t", "e", "g", "o", "r", "y", " ", "6">>,
         <<"a", "m", "l", "a", "_", "c", "a", "t", "e", "g", "o", "r", "y", "_", "6">>>>,
       <<<<"A", "M", "L", "A", " ", "C", "a", "t", "e", "g", "o", "r", "y", " ", "7">>,
         <<"a", "m", "l", "a", "_", "c", "a", "t", "e", "g", "o", "r", "y", "_", "7">>>>,
       <<<<"A", "M", "L", "A", " ", "C", "a", "t", "e", "g", "o", "r", "y", " ", "8">>,
         <<"a", "m", "l", "a", "_", "c", "a", "t", "e", "g", "o", "r", "y", "_", "8">>>>,
       <<<<"A", "M", "L", "A", " ", "C", "o", "m", "p", "l", "i", "a", "n", "c", "e", " ", "S", "t", "a", "t", "u", "s">>,
         <<"a", "m", "l", "a", "_", "c", "o", "m", "p", "l", "i", "a", "n", "c", "e", "_", "s", "t", "a", "t", "u", "s">>>>,
       <<<<"C", "o", "r", "p", "o", "r", "a", "t", "e", " ", "N", "a", "m", "e", " ", "(", "2", ")">>,
         <<"b", "u", "s", "i", "n", "e", "s", "s", "_", "t", "r", "a", "d", "e", "_", "n", "a", "m", "e">>>>,
       <<<<"C", "o", "r", "p", "o", "r", "a", "t", "e", " ", "N", "a", "m", "e", " ", "(", "3", ")">>,
         <<"b", "u", "s", "i", "n", "e", "s", "s", "_", "t", "r", "a", "d", "e", "_", "n", "a", "m", "e">>>>,
       <<<<"A", "u", "t", "h", " ", "C", "a", "p", "i", "t", "a", "l", " ", "S", "t", "o", "c", "k", " ", "-", " ", "T", "y", "p", "e", " ", "o", "f", " ", "S", "h", "a", "r", "e", "s", " ", "1">>,
         <<"a", "u", "t", "h", "_", "c", "a", "p", "i", "t", "a", "l", "_", "s", "t", "o", "c", "k", "_", "t", "y", "p", "e", "_", "o", "f", "_", "s", "h", "a", "r", "e", "s", "_", "1">>>>,
       <<<<"A", "u", "t", "h", " ", "C", "a", "p", "i", "t", "a", "l", " ", "S", "t", "o", "c", "k", " ", "-", " ", "N", "u", "m", "b", "e", "r", " ", "o", "f", " ", "S", "h", "a", "r", "e", "s", " ", "1">>,
         <<"a", "u", "t", "h", "_", "c", "a", "p", "i", "t", "a", "l", "_", "s", "t", "o", "c", "k", "_", "n", "u", "m", "b", "e", "r", "_", "o", "f", "_", "s", "h", "a", "r", "e", "s", "_", "1">>>>,
       <<<<"A", "u", "t", "h", " ", "C", "a", "p", "i", "t", "a", "l", " ", "S", "t", "o", "c", "k", " ", "-", " ", "P", "a", "r", " ", "/", " ", "S", "t", "a", "t", "e", "d", " ", "V", "a", "l", "u", "e", " ", "1">>,
         <<"a", "u", "t", "h", "_", "c", "a", "p", "i", "t", "a", "l", "_", "s", "t", "o", "c", "k", "_", "p", "a", "r", "_", "s", "t", "a", "t", "e", "d", "_", "v", "a", "l", "u", "e", "_", "1">>>>,
       <<<<"A", "u", "t", "h", " ", "C", "a", "p", "i", "t", "a", "l", " ", "S", "t", "o", "c", "k", " ", "-", " ", "A", "m", "o", "u", "n", "t", " ", "(", "P", "h", "P", ")", " ", "1">>,
         <<"a", "u", "t", "h", "_", "c", "a", "p", "i", "t", "a", "l", "_", "s", "t", "o", "c", "k", "_", "a", "m", "o", "u", "n", "t", "_", "p", "h", "p", "_", "1">>>>,
       <<<<"F", "i", "l", "i", "p", "i", "n", "o", " ", "S", "u", "b", "s", "c", "r", "i", "b", "e", "d", " ", "C", "a", "p", "i", "t", "a", "l", " ", "-", " ", "T", "y", "p", "e", " ", "o", "f", " ", "S", "h", "a", "r", "e", "s", " ", "1">>,
         <<"f", "i", "l", "i", "p", "i", "n", "o", "_", "s", "u", "b", "s", "c", "r", "i", "b", "e", "d", "_", "c", "a", "p", "i", "t", "a", "l", "_", "t", "y", "p", "e", "_", "o", "f", "_", "s", "h", "a", "r", "e", "s", "_", "1">>>>,
       <<<<"F", "i", "l", "i", "p", "i", "n", "o", " ", "S", "u", "b", "s", "c", "r", "i", "b", "e", "d", " ", "C", "a", "p", "i", "t", "a", "l", " ", "-", " ", "N", "u", "m", "b", "e", "r", " ", "o", "f", " ", "S", "h", "a", "r", "e", "s", " ", "1">>,
         <<"f", "i", "l", "i", "p", "i", "n", "o", "_", "s", "u", "b", "s", "c", "r", "i", "b", "e", "d", "_", "c", "a", "p", "i", "t", "a", "l", "_", "n", "u", "m", "b", "e", "r", "_", "o", "f", "_", "s", "h", "a", "r", "e", "s", "_", "1">>>>,
       <<<<"F", "i", "l", "i", "p", "i", "n", "o", " ", "S", "u", "b", "s", "c", "r", "i", "b", "e", "d", " ", "C", "a", "p", "i", "t", "a", "l", " ", "-", " ", "P", "a", "r", " ", "/", " ", "S", "t", "a", "t", "e", "d", " ", "V", "a", "l", "u", "e", " ", "1">>,
         <<"f", "i", "l", "i", "p", "i", "n", "o", "_", "s", "u", "b", "s", "c", "r", "i", "b", "e", "d", "_", "c", "a", "p", "i", "t", "a", "l", "_", "p", "a", "r", "_", "s", "t", "a", "t", "e", "d", "_", "v", "a", "l", "u", "e", "_", "1">>>>,
       <<<<"F", "i", "l", "i", "p", "i", "n", "o", " ", "S", "u", "b", "s", "c", "r", "i", "b", "e", "d", " ", "C", "a", "p", "i", "t", "a", "l", " ", "-", " ", "A", "m", "o", "u", "n", "t", " ", "(", "P", "h", "P", ")", " ", "1">>,
         <<"f", "i", "l", "i", "p", "i", "n", "o", "_", "s", "u", "b", "s", "c", "r", "i", "b", "e", "d", "_", "c", "a", "p", "i", "t", "a", "l", "_", "a", "m", "o", "u", "n", "t", "_", "p", "h", "p", "_", "1">>>>,
       <<<<"F", "o", "r", "e", "i", "g", "n", " ", "S", "u", "b", "s", "c", "r", "i", "b", "e", "d", " ", "C", "a", "p", "i", "t", "a", "l", " ", "-", " ", "T", "y", "p", "e", " ", "o", "f", " ", "S", "h", "a", "r", "e", "s", " ", "1">>,
         <<"f", "o", "r", "e", "i", "g", "n", "_", "s", "u", "b", "s", "c", "r", "i", "b", "e", "d", "_", "c", "a", "p", "i", "t", "a", "l", "_", "t", "y", "p", "e", "_", "o", "f", "_", "s", "h", "a", "r", "e", "s", "_", "1">>>>,
       <<<<"F", "o", "r", "e", "i", "g", "n", " ", "S", "u", "b", "s", "c", "r", "i", "b", "e", "d", " ", "C", "a", "p", "i", "t", "a", "l", " ", "-", " ", "N", "u", "m", "b", "e", "r", " ", "o", "f", " ", "S", "h", "a", "r", "e", "s", " ", "1">>,
         <<"f", "o", "r", "e", "i", "g", "n", "_", "s", "u", "b", "s", "c", "r", "i", "b", "e", "d", "_", "c", "a", "p", "i", "t", "a", "l", "_", "n", "u", "m", "b", "e", "r", "_", "o", "f", "_", "s", "h", "a", "r", "e", "s", "_", "1">>>>,
       <<<<"F", "o", "r", "e", "i", "g", "n", " ", "S", "u", "b", "s", "c", "r", "i", "b", "e", "d", " ", "C", "a", "p", "i", "t", "a", "l", " ", "-", " ", "P", "a", "r", " ", "/", " ", "S", "t", "a", "t", "e", "d", " ", "V", "a", "l", "u", "e", " ", "1">>,
         <<"f", "o", "r", "e", "i", "g", "n", "_", "s", "u", "b", "s", "c", "r", "i", "b", "e", "d", "_", "c", "a", "p", "i", "t", "a", "l", "_", "p", "a", "r", "_", "s", "t", "a", "t", "e", "d", "_", "v", "a", "l", "u", "e", "_", "1">>>>,
       <<<<"F", "o", "r", "e", "i", "g", "n", " ", "S", "u", "b", "s", "c", "r", "i", "b", "e", "d", " ", "C", "a", "p", "i", "t", "a", "l", " ", "-", " ", "A", "m", "o", "u", "n", "t", " ", "(", "P", "h", "P", ")", " ", "1">>,
         <<"f", "o", "r", "e", "i", "g", "n", "_", "s", "u", "b", "s", "c", "r", "i", "b", "e", "d", "_", "c", "a", "p", "i", "t", "a", "l", "_", "a", "m", "o", "u", "n", "t", "_", "p", "h", "p", "_", "1">>>>,
       <<<<"S", "u", "b", "s", "c", "r", "i", "b", "e", "d", " ", "C", "a", "p", "i", "t", "a", "l", "_", "%", " ", "F", "o", "r", "e", "i", "g", "h", " ", "E", "q", "u", "i", "t", "y">>,
         <<"s", "u", "b", "s", "c", "r", "i", "b", "e", "d", "_", "c", "a", "p", "i", "t", "a", "l", "_", "f", "o", "r", "e", "i", "g", "n", "_", "e", "q", "u", "i", "t", "y", "_", "p", "e", "r", "c", "e", "n", "t", "a", "g", "e">>>>,
       <<<<"S", "u", "b", "s", "c", "r", "i", "b", "e", "d", " ", "C", "a", "p", "i", "t", "a", "l", "_", "T", "o", "t", "a", "l">>,
         <<"s", "u", "b", "s", "c", "r", "i", "b", "e", "d", "_", "c", "a", "p", "i", "t", "a", "l", "_", "t", "o", "t", "a", "l">>>>,
       <<<<"F", "i", "l", "i", "p", "i", "n", "o", " ", "P", "a", "i", "d", "-", "U", "p", " ", "C", "a", "p", "i", "t", "a", "l", " ", "-", " ", "T", "y", "p", "e", " ", "o", "f", " ", "S", "h", "a", "r", "e", "s", " ", "1">>,
         <<"f", "i", "l", "i", "p", "i", "n", "o", "_", "p", "a", "i", "d", "_", "u", "p", "_", "c", "a", "p", "i", "t", "a", "l", "_", "t", "y", "p", "e", "_", "o", "f", "_", "s", "h", "a", "r", "e", "s", "_", "1">>>>,
       <<<<"F", "i", "l", "i", "p", "i", "n", "o", " ", "P", "a", "i", "d", "-", "u", "p", " ", "C", "a", "p", "i", "t", "a", "l", " ", "N", "u", "m", "b", "e", "r", " ", "o", "f", " ", "S", "h", "a", "r", "e", "s", " ", "1">>,
         <<"f", "i", "l", "i", "p", "i", "n", "o", "_", "p", "a", "i", "d", "_", "u", "p", "_", "c", "a", "p", "i", "t", "a", "l", "_", "n", "u", "m", "b", "e", "r", "_", "o", "f", "_", "s", "h", "a", "r", "e", "s", "_", "1">>>>,
       <<<<"F", "i", "l", "i", "p", "i", "n", "o", " ", "P", "a", "i", "d", "-", "U", "p", " ", "C", "a", "p", "i", "t", "a", "l", " ", "-", " ", "P", "a", "r", " ", "/", " ", "S", "t", "a", "t", "e", "d", " ", "V", "a", "l", "u", "e", " ", "1">>,
         <<"f", "i", "l", "i", "p", "i", "n", "o", "_", "p", "a", "i", "d", "_", "u", "p", "_", "c", "a", "p", "i", "t", "a", "l", "_", "p", "a", "r", "_", "s", "t", "a", "t", "e", "d", "_", "v", "a", "l", "u", "e", "_", "1">>>>,
       <<<<"F", "i", "l", "i", "p", "i", "n", "o", " ", "P", "a", "i", "d", "-", "U", "p", " ", "C", "a", "p", "i", "t", "a", "l", " ", "-", " ", "A", "m", "o", "u", "n", "t", " ", "(", "P", "h", "P", ")", " ", "1">>,
         <<"f", "i", "l", "i", "p", "i", "n", "o", "_", "p", "a", "i", "d", "_", "u", "p", "_", "c", "a", "p", "i", "t", "a", "l", "_", "a", "m", "o", "u", "n", "t", "_", "p", "h", "p", "_", "1">>>>,
       <<<<"F", "o", "r", "e", "i", "g", "n", " ", "P", "a", "i", "d", "-", "U", "p", " ", "C", "a", "p", "i", "t", "a", "l", " ", "-", " ", "T", "y", "p", "e", " ", "o", "f", " ", "S", "h", "a", "r", "e", "s", " ", "1">>,
         <<"f", "o", "r", "e", "i", "g", "n", "_", "p", "a", "i", "d", "_", "u", "p", "_", "c", "a", "p", "i", "t", "a", "l", "_", "t", "y", "p", "e", "_", "o", "f", "_", "s", "h", "a", "r", "e", "s", "_", "1">>>>,
       <<<<"F", "o", "r", "e", "i", "g", "n", " ", "P", "a", "i", "d", "-", "u", "p", " ", "C", "a", "p", "i", "t", "a", "l", " ", "N", "u", "m", "b", "e", "r", " ", "o", "f", " ", "S", "h", "a", "r", "e", "s", " ", "1">>,
         <<"f", "o", "r", "e", "i", "g", "n", "_", "p", "a", "i", "d", "_", "u", "p", "_", "c", "a", "p", "i", "t", "a", "l", "_", "n", "u", "m", "b", "e", "r", "_", "o", "f", "_", "s", "h", "a", "r", "e", "s", "_", "1">>>>,
       <<<<"F", "o", "r", "e", "i", "g", "n", " ", "P", "a", "i", "d", "-", "U", "p", " ", "C", "a", "p", "i", "t", "a", "l", " ", "-", " ", "P", "a", "r", " ", "/", " ", "S", "t", "a", "t", "e", "d", " ", "V", "a", "l", "u", "e", " ", "1">>,
         <<"f", "o", "r", "e", "i", "g", "n", "_", "p", "a", "i", "d", "_", "u", "p", "_", "c", "a", "p", "i", "t", "a", "l", "_", "p", "a", "r", "_", "s", "t", "a", "t", "e", "d", "_", "v", "a", "l", "u", "e", "_", "1">>>>,
       <<<<"F", "o", "r", "e", "i", "g", "n", " ", "P", "a", "i", "d", "-", "U", "p", " ", "C", "a", "p", "i", "t", "a", "l", " ", "-", " ", "A", "m", "o", "u", "n", "t", " ", "(", "P", "h", "P", ")", " ", "1">>,
         <<"f", "o", "r", "e", "i", "g", "n", "_", "p", "a", "i", "d", "_", "u", "p", "_", "c", "a", "p", "i", "t", "a", "l", "_", "a", "m", "o", "u", "n", "t", "_", "p", "h", "p", "_", "1">>>>,
       <<<<"P", "a", "i", "d", "-", "u", "p", " ", "C", "a", "p", "i", "t", "a", "l", "_", "%", " ", "F", "o", "r", "e", "i", "g", "h", " ", "E", "q", "u", "i", "t", "y">>,
         <<"p", "a", "i", "d", "_", "u", "p", "_", "c", "a", "p", "i", "t", "a", "l", "_", "f", "o", "r", "e", "i", "g", "n", "_", "e", "q", "u", "i", "t", "y", "_", "p", "e", "r", "c", "e", "n", "t", "a", "g", "e">>>>,
       <<<<"P", "a", "i", "d", "-", "U", "p", " ", "C", "a", "p", "i", "t", "a", "l", "_", "T", "o", "t", "a", "l">>,
         <<"p", "a", "i", "d", "_", "u", "p", "_", "c", "a", "p", "i", "t", "a", "l", "_", "t", "o", "t", "a", "l">>>>,
       <<<<"C", "o", "r", "p", "o", "r", "a", "t", "e", " ", "N", "a", "m", "e", " ", "(", "4", ")">>,
         <<"b", "u", "s", "i", "n", "e", "s", "s", "_", "t", "r", "a", "d", "e", "_", "n", "a", "m", "e">>>>,
       <<<<"C", "o", "r", "p", "o", "r", "a", "t", "e", " ", "N", "a", "m", "e", " ", "(", "5", ")">>,
         <<"b", "u", "s", "i", "n", "e", "s", "s", "_", "t", "r", "a", "d", "e", "_", "n", "a", "m", "e">>>>,
       <<<<"C", "o", "r", "p", "o", "r", "a", "t", "e", " ", "N", "a", "m", "e", " ", "(", "6", ")">>,
         <<"b", "u", "s", "i", "n", "e", "s", "s", "_", "t", "r", "a", "d", "e", "_", "n", "a", "m", "e">>>> >>

\* range(1, 21) and range(1, 11): the number of slots of each kind
DirectorOfficerEntries == 20
StockholderEntries == 10

\* lines 263-273: the f-strings of the loop body: label suffix, key prefix
director_officer_fields ==
    << <<<<" ", "N", "a", "m", "e">>,
         <<"d", "i", "r", "e", "c", "t", "o", "r", "_", "o", "f", "f", "i", "c", "e", "r", "_", "n", "a", "m", "e", "_">>>>,
       <<<<" ", "A", "d", "d", "r", "e", "s", "s">>,
         <<"d", "i", "r", "e", "c", "t", "o", "r", "_", "o", "f", "f", "i", "c", "e", "r", "_", "a", "d", "d", "r", "e", "s", "s", "_">>>>,
       <<<<" ", "N", "a", "t", "i", "o", "n", "a", "l", "i", "t", "y">>,
         <<"d", "i", "r", "e", "c", "t", "o", "r", "_", "o", "f", "f", "i", "c", "e", "r", "_", "n", "a", "t", "i", "o", "n", "a", "l", "i", "t", "y", "_">>>>,
       <<<<" ", "I", "N", "C", "'", "R">>,
         <<"d", "i", "r", "e", "c", "t", "o", "r", "_", "o", "f", "f", "i", "c", "e", "r", "_", "i", "n", "c", "_", "r", "_">>>>,
       <<<<" ", "B", "o", "a", "r", "d">>,
         <<"d", "i", "r", "e", "c", "t", "o", "r", "_", "o", "f", "f", "i", "c", "e", "r", "_", "b", "o", "a", "r", "d", "_">>>>,
       <<<<" ", "G", "e", "n", "d", "e", "r">>,
         <<"d", "i", "r", "e", "c", "t", "o", "r", "_", "o", "f", "f", "i", "c", "e", "r", "_", "g", "e", "n", "d", "e", "r", "_">>>>,
       <<<<" ", "S", "t", "o", "c", "k", " ", "H", "o", "l", "d", "e", "r">>,
         <<"d", "i", "r", "e", "c", "t", "o", "r", "_", "o", "f", "f", "i", "c", "e", "r", "_", "s", "t", "o", "c", "k", "_", "h", "o", "l", "d", "e", "r", "_">>>>,
       <<<<" ", "O", "f", "f", "i", "c", "e", "r">>,
         <<"d", "i", "r", "e", "c", "t", "o", "r", "_", "o", "f", "f", "i", "c", "e", "r", "_", "o", "f", "f", "i", "c", "e", "r", "_">>>>,
       <<<<" ", "E", "x", "e", "c", " ", "C", "o", "m", "m", ".">>,
         <<"d", "i", "r", "e", "c", "t", "o", "r", "_", "o", "f", "f", "i", "c", "e", "r", "_", "e", "x", "e", "c", "_", "c", "o", "m", "m", "_">>>>,
       <<<<" ", "T", "I", "N">>,
         <<"d", "i", "r", "e", "c", "t", "o", "r", "_", "o", "f", "f", "i", "c", "e", "r", "_", "t", "i", "n", "_">>>> >>

\* lines 276-280: the labels and the keys they read, as written
gis_middle_items ==
    << <<<<"T", "o", "t", "a", "l", " ", "N", "u", "m", "b", "e", "r", " ", "o", "f", " ", "S", "t", "o", "c", "k", "h", "o", "l", "d", "e", "r", "s">>,
         <<"t", "o", "t", "a", "l", "_", "n", "u", "m", "b", "e", "r", "_", "s", "t", "o", "c", "k", "h", "o", "l", "d", "e", "r", "s">>>>,
       <<<<"N", "u", "m", "b", "e", "r", " ", "o", "f", " ", "S", "t", "o", "c", "k", "h", "o", "l", "d", "e", "r", "s", " ", "w", "i", "t", "h", " ", GreaterEqualSign, "1", "0", "0", " ", "s", "h", "a", "r", "e", "s">>,
         <<"n", "u", "m", "b", "e", "r", "_", "s", "t", "o", "c", "k", "h", "o", "l", "d", "e", "r", "s", "_", "1", "0", "0", "_", "p", "l", "u", "s", "_", "s", "h", "a", "r", "e", "s">>>>,
       <<<<"T", "o", "t", "a", "l", " ", "A", "s", "s", "e", "t", "s", " ", "(", "L", "a", "t", "e", "s", "t", " ", "A", "u", "d", "i", "t", "e", "d", " ", "F", "S", ")">>,
         <<"t", "o", "t", "a", "l", "_", "a", "s", "s", "e", "t", "s">>>> >>

\* lines 283-291: the f-strings of the loop body: label suffix, key prefix
stockholder_fields ==
    << <<<<" ", "N", "a", "m", "e">>,
         <<"s", "t", "o", "c", "k", "h", "o", "l", "d", "e", "r", "_", "n", "a", "m", "e", "_">>>>,
       <<<<" ", "N", "a", "t", "i", "o", "n", "a", "l", "i", "t", "y">>,
         <<"s", "t", "o", "c", "k", "h", "o", "l", "d", "e", "r", "_", "n", "a", "t", "i", "o", "n", "a", "l", "i", "t", "y", "_">>>>,
       <<<<" ", "A", "d", "d", "r", "e", "s", "s">>,
         <<"s", "t", "o", "c", "k", "h", "o", "l", "d", "e", "r", "_", "a", "d", "d", "r", "e", "s", "s", "_">>>>,
       <<<<" ", "T", "o", "t", "a", "l", " ", "S", "h", "a", "r", "e", "s", " ", "S", "u", "b", "s", "c", "r", "i", "b", "e", "d", "_", "N", "o", ".">>,
         <<"s", "t", "o", "c", "k", "h", "o", "l", "d", "e", "r", "_", "s", "h", "a", "r", "e", "s", "_", "s", "u", "b", "s", "c", "r", "i", "b", "e", "d", "_", "n", "u", "m", "b", "e", "r", "_">>>>,
       <<<<" ", "T", "o", "t", "a", "l", " ", "S", "h", "a", "r", "e", "s", " ", "S", "u", "b", "s", "c", "r", "i", "b", "e", "d", "_", "A", "m", "o", "u", "n", "t", " ", "(", "P", "H", "P", ")">>,
         <<"s", "t", "o", "c", "k", "h", "o", "l", "d", "e", "r", "_", "s", "h", "a", "r", "e", "s", "_", "s", "u", "b", "s", "c", "r", "i", "b", "e", "d", "_", "a", "m", "o", "u", "n", "t", "_">>>>,
       <<<<" ", "%", " ", "o", "f", " ", "O", "w", "n", "e", "r", "s", "h", "i", "p">>,
         <<"s", "t", "o", "c", "k", "h", "o", "l", "d", "e", "r", "_", "o", "w", "n", "e", "r", "s", "h", "i", "p", "_", "p", "e", "r", "c", "e", "n", "t", "a", "g", "e", "_">>>>,
       <<<<" ", "A", "m", "o", "u", "n", "t", " ", "P", "a", "i", "d", " ", "(", "P", "H", "P", ")">>,
         <<"s", "t", "o", "c", "k", "h", "o", "l", "d", "e", "r", "_", "a", "m", "o", "u", "n", "t", "_", "p", "a", "i", "d", "_">>>>,
       <<<<" ", "T", "I", "N">>,
         <<"s", "t", "o", "c", "k", "h", "o", "l", "d", "e", "r", "_", "t", "i", "n", "_">>>> >>

\* lines 294-328: the labels and the keys they read, as written
gis_last_items ==
    << <<<<"S", "u", "b", "s", "c", "r", "i", "b", "e", "d", " ", "C", "a", "p", "i", "t", "a", "l", "_", "T", "o", "t", "a", "l", " ", "(", "P", "H", "P", ")", " ", "(", "f", "r", "o", "m", " ", "S", "t", "o", "c", "k", "h", "o", "l", "d", "e", "r", " ", "d", "e", "t", "a", "i", "l", " ", "p", "a", "g", "e", "s", ")">>,
         <<"s", "u", "b", "s", "c", "r", "i", "b", "e", "d", "_", "c", "a", "p", "i", "t", "a", "l", "_", "t", "o", "t", "a", "l", "_", "f", "r", "o", "m", "_", "s", "t", "o", "c", "k", "h", "o", "l", "d", "e", "r", "s">>>>,
       <<<<"P", "a", "i", "d", "-", "U", "p", " ", "C", "a", "p", "i", "t", "a", "l", "_", "T", "o", "t", "a", "l", " ", "(", "P", "H", "P", ")", " ", "(", "f", "r", "o", "m", " ", "S", "t", "o", "c", "k", "h", "o", "l", "d", "e", "r", " ", "d", "e", "t", "a", "i", "l", " ", "p", "a", "g", "e", "s", ")">>,
         <<"p", "a", "i", "d", "_", "u", "p", "_", "c", "a", "p", "i", "t", "a", "l", "_", "t", "o", "t", "a", "l", "_", "f", "r", "o", "m", "_", "s", "t", "o", "c", "k", "h", "o", "l", "d", "e", "r", "s">>>>,
       <<<<"S", "u", "b", "s", "c", "r", "i", "b", "e", "d", " ", "C", "a", "p", "i", "t", "a", "l", "_", "T", "o", "t", "a", "l", " ", "(", "P", "H", "P", ")", " ", "(", "f", "r", "o", "m", " ", "S", "t", "o", "c", "k", "h", "o", "l", "d", "e", "r", " ", "d", "e", "t", "a", "i", "l", " ", "p", "a", "g", "e", "s", ")">>,
         <<"f", "i", "l", "i", "p", "i", "n", "o", "_", "s", "u", "b", "s", "c", "r", "i", "b", "e", "d", "_", "c", "a", "p", "i", "t", "a", "l", "_", "a", "m", "o", "u", "n", "t", "_", "p", "h", "p", "_", "1">>>>,
       <<<<"P", "a", "i", "d", "-", "U", "p", " ", "C", "a", "p", "i", "t", "a", "l", "_", "T", "o", "t", "a", "l", " ", "(", "P", "H", "P", ")", " ", "(", "f", "r", "o", "m", " ", "S", "t", "o", "c", "k", "h", "o", "l", "d", "e", "r", " ", "d", "e", "t", "a", "i", "l", " ", "p", "a", "g", "e", "s", ")">>,
         <<"f", "i", "l", "i", "p", "i", "n", "o", "_", "p", "a", "i", "d", "_", "u", "p", "_", "c", "a", "p", "i", "t", "a", "l", "_", "a", "m", "o", "u", "n", "t", "_", "p", "h", "p", "_", "1">>>>,
       <<<<"U", "n", "r", "e", "s", "t", "r", "i", "c", "t", "e", "d", " ", "R", "e", "t", "a", "i", "n", "e", "d", " ", "E", "a", "r", "n", "i", "n", "g", "s", " ", "(", "P", "H", "P", ")">>,
         <<"u", "n", "r", "e", "s", "t", "r", "i", "c", "t", "e", "d", "_", "r", "e", "t", "a", "i", "n", "e", "d", "_", "e", "a", "r", "n", "i", "n", "g", "s">>>>,
       <<<<"P", "r", "i", "o", "r", " ", "y", "e", "a", "r", " ", "D", "i", "v", "i", "d", "e", "n", "d", "s", "_", "C", "a", "s", "h", " ", "(", "P", "H", "P", ")">>,
         <<"p", "r", "i", "o", "r", "_", "y", "e", "a", "r", "_", "d", "i", "v", "i", "d", "e", "n", "d", "s", "_", "c", "a", "s", "h">>>>,
       <<<<"P", "r", "i", "o", "r", " ", "y", "e", "a", "r", " ", "D", "i", "v", "i", "d", "e", "n", "d", "s", "_", "S", "t", "o", "c", "k", " ", "(", "P", "H", "P", ")">>,
         <<"p", "r", "i", "o", "r", "_", "y", "e", "a", "r", "_", "d", "i", "v", "i", "d", "e", "n", "d", "s", "_", "s", "t", "o", "c", "k">>>>,
       <<<<"P", "r", "i", "o", "r", " ", "y", "e", "a", "r", " ", "D", "i", "v", "i", "d", "e", "n", "d", "s", "_", "P", "r", "o", "p", "e", "r", "t", "y", " ", "(", "P", "H", "P", ")">>,
         <<"p", "r", "i", "o", "r", "_", "y", "e", "a", "r", "_", "d", "i", "v", "i", "d", "e", "n", "d", "s", "_", "p", "r", "o", "p", "e", "r", "t", "y">>>>,
       <<<<"P", "r", "i", "o", "r", " ", "y", "e", "a", "r", " ", "D", "i", "v", "i", "d", "e", "n", "d", "s", "_", "T", "o", "t", "a", "l", " ", "(", "P", "H", "P", ")">>,
         <<"p", "r", "i", "o", "r", "_", "y", "e", "a", "r", "_", "d", "i", "v", "i", "d", "e", "n", "d", "s", "_", "t", "o", "t", "a", "l">>>>,
       <<<<"S", "h", "a", "r", "e", " ", "I", "s", "s", "u", "a", "n", "c", "e", "_", "D", "a", "t", "e">>,
         <<"s", "h", "a", "r", "e", "_", "i", "s", "s", "u", "a", "n", "c", "e", "_", "d", "a", "t", "e">>>>,
       <<<<"S", "h", "a", "r", "e", " ", "I", "s", "s", "u", "a", "n", "c", "e", "_", "N", "o">>,
         <<"s", "h", "a", "r", "e", "_", "i", "s", "s", "u", "a", "n", "c", "e", "_", "n", "u", "m", "b", "e", "r">>>>,
       <<<<"S", "h", "a", "r", "e", " ", "I", "s", "s", "u", "a", "n", "c", "e", "_", "A", "m", "o", "u", "n", "t", " ", "(", "P", "H", "P", ")">>,
         <<"s", "h", "a", "r", "e", "_", "i", "s", "s", "u", "a", "n", "c", "e", "_", "a", "m", "o", "u", "n", "t">>>>,
       <<<<"S", "E", "C", " ", "L", "i", "c", "e", "n", "s", "e", " ", "T", "y", "p", "e">>,
         <<"s", "e", "c", "_", "l", "i", "c", "e", "n", "s", "e", "_", "t", "y", "p", "e">>>>,
       <<<<"S", "E", "C", " ", "L", "i", "c", "n", "e", "s", "e", " ", "D", "a", "t", "e">>,
         <<"s", "e", "c", "_", "l", "i", "c", "e", "n", "s", "e", "_", "d", "a", "t", "e">>>>,
       <<<<"S", "E", "C", " ", "O", "p", "s", " ", "s", "t", "a", "r", "t">>,
         <<"s", "e", "c", "_", "o", "p", "s", "_", "s", "t", "a", "r", "t">>>>,
       <<<<"B", "S", "P", " ", "L", "i", "c", "e", "n", "s", "e", " ", "T", "y", "p", "e">>,
         <<"b", "s", "p", "_", "l", "i", "c", "e", "n", "s", "e", "_", "t", "y", "p", "e">>>>,
       <<<<"B", "S", "P", " ", "L", "i", "c", "n", "e", "s", "e", " ", "D", "a", "t", "e">>,
         <<"b", "s", "p", "_", "l", "i", "c", "e", "n", "s", "e", "_", "d", "a", "t", "e">>>>,
       <<<<"B", "S", "P", " ", "O", "p", "s", " ", "s", "t", "a", "r", "t">>,
         <<"b", "s", "p", "_", "o", "p", "s", "_", "s", "t", "a", "r", "t">>>>,
       <<<<"I", "C", " ", "L", "i", "c", "e", "n", "s", "e", " ", "T", "y", "p", "e">>,
         <<"i", "c", "_", "l", "i", "c", "e", "n", "s", "e", "_", "t", "y", "p", "e">>>>,
       <<<<"I", "C", " ", "L", "i", "c", "n", "e", "s", "e", " ", "D", "a", "t", "e">>,
         <<"i", "c", "_", "l", "i", "c", "e", "n", "s", "e", "_", "d", "a", "t", "e">>>>,
       <<<<"I", "C", " ", "O", "p", "s", " ", "s", "t", "a", "r", "t">>,
         <<"i", "c", "_", "o", "p", "s", "_", "s", "t", "a", "r", "t">>>>,
       <<<<"T", "o", "t", "a", "l", " ", "C", "o", "m", "p", " ", "(", "P", "H", "P", ")">>,
         <<"t", "o", "t", "a", "l", "_", "c", "o", "m", "p", "e", "n", "s", "a", "t", "i", "o", "n">>>>,
       <<<<"N", "o", " ", "O", "f", "f", "i", "c", "e", "r", "s">>,
         <<"n", "u", "m", "b", "e", "r", "_", "o", "f", "f", "i", "c", "e", "r", "s">>>>,
       <<<<"N", "o", " ", "E", "m", "p", "l", "o", "y", "e", "e", "s">>,
         <<"n", "u", "m", "b", "e", "r", "_", "e", "m", "p", "l", "o", "y", "e", "e", "s">>>>,
       <<<<"T", "o", "t", "a", "l", " ", "M", "a", "n", "p", "o", "w", "e", "r">>,
         <<"t", "o", "t", "a", "l", "_", "m", "a", "n", "p", "o", "w", "e", "r">>>>,
       <<<<"U", "B", "O", "_", "N", "a", "m", "e">>,
         <<"u", "b", "o", "_", "n", "a", "m", "e">>>>,
       <<<<"U", "B", "O", "_", "A", "d", "d", "r", "e", "s", "s">>,
         <<"u", "b", "o", "_", "a", "d", "d", "r", "e", "s", "s">>>>,
       <<<<"U", "B", "O", "_", "N", "a", "i", "t", "o", "n", "a", "l", "i", "t", "y">>,
         <<"u", "b", "o", "_", "n", "a", "t", "i", "o", "n", "a", "l", "i", "t", "y">>>>,
       <<<<"U", "B", "O", "_", "D", "O", "B">>,
         <<"u", "b", "o", "_", "d", "o", "b">>>>,
       <<<<"U", "B", "O", "_", "T", "I", "N">>,
         <<"u", "b", "o", "_", "t", "i", "n">>>>,
       <<<<"U", "B", "O", "_", "%", " ", "o", "w", "n", "e", "r", "s", "h", "i", "p">>,
         <<"u", "b", "o", "_", "o", "w", "n", "e", "r", "s", "h", "i", "p", "_", "p", "e", "r", "c", "e", "n", "t", "a", "g", "e">>>>,
       <<<<"U", "B", "O", "_", "T", "y", "p", "e">>,
         <<"u", "b", "o", "_", "t", "y", "p", "e">>>>,
       <<<<"U", "B", "O", "_", "C", "a", "t", "e", "g", "o", "r", "y">>,
         <<"u", "b", "o", "_", "c", "a", "t", "e", "g", "o", "r", "y">>>> >>

\* Mutant of loop_items: the slots are numbered from 0.
loop_items_FromZero(prefix, fields, entries) ==
    [n \in 1..(entries * Len(fields)) |->
        LET i == (n - 1) \div Len(fields)
            field == fields[1 + ((n - 1) % Len(fields))]
        IN  <<prefix \o str_int(i) \o field[1], field[2] \o str_int(i)>>]

\* for i in range(1, entries + 1): field_mapping[f"{prefix}{i}{suffix}"] = data.get(f"{stem}{i}", "")
loop_items(prefix, fields, entries) ==
    [n \in 1..(entries * Len(fields)) |->
        LET i == 1 + ((n - 1) \div Len(fields))
            field == fields[1 + ((n - 1) % Len(fields))]
        IN  <<prefix \o str_int(i) \o field[1], field[2] \o str_int(i)>>]

director_officer_items ==
    loop_items(<<"D", "i", "r", "e", "c", "t", "o", "r", "/", "O", "f", "f", "i", "c", "e", "r", " ">>,
               director_officer_fields, DirectorOfficerEntries)
stockholder_items ==
    loop_items(<<"S", "t", "o", "c", "k", "h", "o", "l", "d", "e", "r", " ">>, stockholder_fields, StockholderEntries)

\* every assignment of the function, in program order: <<label, key>>
gis_catalog ==
    gis_first_items \o director_officer_items \o gis_middle_items
        \o stockholder_items \o gis_last_items

\* data.get(key, "")
data_get(data, key) == IF dict_has(data, key) THEN dict_get(data, key) ELSE JStr(<< >>)

\* the assignments of the catalog whose label no earlier assignment has
gis_first_assignments ==
    SelectSeq(gis_catalog,
              LAMBDA item : item = gis_catalog[SetMin({n \in 1..Len(gis_catalog) :
                                                          gis_catalog[n][1] = item[1]})])

\* Mutant of gis_field_mapping: a label assigned twice keeps its first value.
gis_field_mapping_FirstAssignment(data) ==
    [n \in 1..Len(gis_first_assignments) |->
        <<gis_first_assignments[n][1], data_get(data, gis_first_assignments[n][2])>>]

\* lines 194-328: field_mapping after the last update
gis_field_mapping(data) ==
    dict([n \in 1..Len(gis_catalog) |->
             <<gis_catalog[n][1], data_get(data, gis_catalog[n][2])>>])

\* Mutant of clean_value: only the null value is cleaned, the text "null" is kept.
clean_value_KeepsNullText(value) ==
    IF value.t = "null" THEN << >> ELSE py_str(value)

\* lines 333-336: "" if value is None or str(value).lower() == "null" else str(value)
clean_value(value) ==
    IF value.t = "null" \/ str_lower(py_str(value)) = <<"n", "u", "l", "l">>
    THEN << >>
    ELSE py_str(value)

\* lines 331-338: cleaned_mapping
cleaned_mapping(mapping) ==
    [n \in 1..Len(mapping) |-> <<mapping[n][1], JStr(clean_value(mapping[n][2]))>>]

\* Mutant of map_sec_gis_fields: data[key] instead of data.get(key, ""), a
\* key of the catalog that the document lacks raises KeyError.
map_sec_gis_fields_KeyError(data_in) ==
    LET decoded == IF data_in.t = "str" THEN json_loads(data_in.v)
                   ELSE [ok |-> TRUE, val |-> data_in]
    IN  IF ~decoded.ok THEN [raised |-> "ValueError", value |-> NoResult]
        ELSE IF decoded.val.t # "obj" THEN [raised |-> "AttributeError", value |-> NoResult]
        ELSE IF \E n \in 1..Len(gis_catalog) : ~dict_has(decoded.val.v, gis_catalog[n][2])
        THEN [raised |-> "KeyError", value |-> NoResult]
        ELSE [raised |-> "", value |-> JObj(cleaned_mapping(gis_field_mapping(decoded.val.v)))]

\* The outcome of map_sec_gis_fields(json_data): [raised, value].  A text is
\* decoded first; data.get exists on a dict only.
map_sec_gis_fields(data_in) ==
    LET decoded == IF data_in.t = "str" THEN json_loads(data_in.v)
                   ELSE [ok |-> TRUE, val |-> data_in]
    IN  IF ~decoded.ok THEN [raised |-> "ValueError", value |-> NoResult]
        ELSE IF decoded.val.t # "obj" THEN [raised |-> "AttributeError", value |-> NoResult]
        ELSE [raised |-> "", value |-> JObj(cleaned_mapping(gis_field_mapping(decoded.val.v)))]


(***************************************************************************)
(* Calls of map_sec_gis_fields: every document of at most MaxGisKeys keys  *)
(* of a sample (slots at both ends of the ranges and one past the end,     *)
(* null, "null" in several cases, a number, a boolean, a key the catalog   *)
(* reads twice, a list, a dict), a few values that are no dict, and JSON   *)
(* texts.                                                                  *)
(***************************************************************************)
GisSampleItems ==
    << <<<<"d", "o", "c", "u", "m", "e", "n", "t", "_", "t", "y", "p", "e">>, JStr(<<"G", "I", "S">>)>>,
       <<<<"d", "i", "r", "e", "c", "t", "o", "r", "_", "o", "f", "f", "i", "c", "e", "r", "_", "n", "a", "m", "e", "_", "1">>, JStr(<<"X">>)>>,
       <<<<"d", "i", "r", "e", "c", "t", "o", "r", "_", "o", "f", "f", "i", "c", "e", "r", "_", "t", "i", "n", "_", "2", "0">>, JStr(<<"T", "2", "0">>)>>,
       <<<<"s", "t", "o", "c", "k", "h", "o", "l", "d", "e", "r", "_", "t", "i", "n", "_", "1", "0">>, JNum(7)>>,
       <<<<"b", "u", "s", "i", "n", "e", "s", "s", "_", "t", "r", "a", "d", "e", "_", "n", "a", "m", "e">>, JNull>>,
       <<<<"t", "o", "t", "a", "l", "_", "a", "s", "s", "e", "t", "s">>, JStr(<<"N", "U", "L", "L">>)>>,
       <<<<"u", "b", "o", "_", "n", "a", "m", "e">>, JStr(<<"N", "u", "l", "l">>)>>,
       <<<<"u", "n", "r", "e", "s", "t", "r", "i", "c", "t", "e", "d", "_", "r", "e", "t", "a", "i", "n", "e", "d", "_", "e", "a", "r", "n", "i", "n", "g", "s">>, JStr(<<"n", "u", "l", "l">>)>>,
       <<<<"o", "f", "f", "i", "c", "i", "a", "l", "_", "e", "m", "a", "i", "l">>, JStr(<<" ", "n", "u", "l", "l", " ">>)>>,
       <<<<"f", "o", "r", "_", "t", "h", "e", "_", "y", "e", "a", "r">>, JBool(TRUE)>>,
       <<<<"d", "i", "r", "e", "c", "t", "o", "r", "_", "o", "f", "f", "i", "c", "e", "r", "_", "n", "a", "m", "e", "_", "2", "1">>, JStr(<<"Z">>)>>,
       <<<<"s", "u", "b", "s", "c", "r", "i", "b", "e", "d", "_", "c", "a", "p", "i", "t", "a", "l", "_", "t", "o", "t", "a", "l", "_", "f", "r", "o", "m", "_", "s", "t", "o", "c", "k", "h", "o", "l", "d", "e", "r", "s">>, JStr(<<"S">>)>>,
       <<<<"f", "i", "l", "i", "p", "i", "n", "o", "_", "s", "u", "b", "s", "c", "r", "i", "b", "e", "d", "_", "c", "a", "p", "i", "t", "a", "l", "_", "a", "m", "o", "u", "n", "t", "_", "p", "h", "p", "_", "1">>, JStr(<<"F">>)>>,
       <<<<"u", "b", "o", "_", "a", "d", "d", "r", "e", "s", "s">>, JArr(<<JNum(1), JStr(<<"a">>), JNull, JBool(TRUE)>>)>>,
       <<<<"u", "b", "o", "_", "t", "y", "p", "e">>, JObj(<< <<<<"k">>, JNum(1)>> >>)>>,
       <<<<"p", "a", "i", "d", "_", "u", "p", "_", "c", "a", "p", "i", "t", "a", "l", "_", "t", "o", "t", "a", "l", "_", "f", "r", "o", "m", "_", "s", "t", "o", "c", "k", "h", "o", "l", "d", "e", "r", "s">>, JStr(<<"P">>)>>,
       <<<<"f", "i", "l", "i", "p", "i", "n", "o", "_", "p", "a", "i", "d", "_", "u", "p", "_", "c", "a", "p", "i", "t", "a", "l", "_", "a", "m", "o", "u", "n", "t", "_", "p", "h", "p", "_", "1">>, JStr(<<"Q">>)>> >>

\* the sub-maps of at most n keys, the order of the kept keys unchanged
SubMapsUpTo(items, n) ==
    {[k \in 1..Len(SelectSeq([i \in 1..Len(items) |-> i], LAMBDA i : i \in chosen)) |->
         items[SelectSeq([i \in 1..Len(items) |-> i], LAMBDA i : i \in chosen)[k]]] :
     chosen \in {c \in SUBSET (1..Len(items)) : Cardinality(c) <= n}}

GisDocs == {JObj(d) : d \in SubMapsUpTo(GisSampleItems, MaxGisKeys)}
GisNonDicts == {JNull, JArr(<< >>), JNum(1), JBool(TRUE)}
GisTexts ==
    {JStr(<<"{", "}">>),
     JStr(<<"[", "]">>),
     JStr(<<"x">>),
     JStr(<<"n", "u", "l", "l">>),
     JStr(<<"7">>),
     JStr(<<"{", "\"", "d", "o", "c", "u", "m", "e", "n", "t", "_", "t", "y", "p", "e", "\"", ":", "\"", "G", "I", "S", "\"", "}">>),
     JStr(<<"{", "\"", "u", "b", "o", "_", "n", "a", "m", "e", "\"", ":", "n", "u", "l", "l", "}">>),
     JStr(<<"{", "\"", "u", "b", "o", "_", "n", "a", "m", "e", "\"", ":", "\"", "N", "U", "L", "L", "\"", ",", "\"", "f", "o", "r", "_", "t", "h", "e", "_", "y", "e", "a", "r", "\"", ":", "2", "0", "2", "4", "}">>)}

GisInputs == GisDocs \cup GisNonDicts \cup GisTexts

InitMapGis ==
    /\ pc = "start"
    /\ json_data \in GisInputs
    /\ result = NoResult
    /\ prev_result = NoResult
    /\ raised = ""
    /\ calls = 0
    /\ ReconcileIdle

MapGis ==
    /\ pc = "start"
    /\ LET r == map_sec_gis_fields(json_data)
       IN  /\ result' = r.value
           /\ raised' = r.raised
    /\ pc' = "done"
    /\ UNCHANGED <<json_data, prev_result, calls, reconcile_vars>>

NextMapGis == MapGis

SpecMapGis == InitMapGis /\ [][NextMapGis]_vars


(***************************************************************************)
(* Reference for the mapper: the labels of the catalog, the keys a label   *)
(* reads, and the document the call works on.                              *)
(***************************************************************************)
RefGisLabels == FirstOccurrences([n \in 1..Len(gis_catalog) |-> gis_catalog[n][1]])

RefSourceKeys(label) ==
    {gis_catalog[n][2] : n \in {m \in 1..Len(gis_catalog) : gis_catalog[m][1] = label}}

\* the key of the last assignment of a label
RefLastKey(label) ==
    gis_catalog[SetMax({m \in 1..Len(gis_catalog) : gis_catalog[m][1] = label})][2]

\* the call returned a mapping
GisReturned == pc = "done" /\ raised = "" /\ result.t = "obj"

\* the input document (decoded when the argument is a text)
RefGisData == IF json_data.t = "str" THEN json_loads(json_data.v).val.v ELSE json_data.v

\* the text the output holds for a label
RefGisValue(label) == RefValueAt(result.v, label).v

Text_Director_Officer == <<"D", "i", "r", "e", "c", "t", "o", "r", "/", "O", "f", "f", "i", "c", "e", "r", " ">>
Text_Stockholder == <<"S", "t", "o", "c", "k", "h", "o", "l", "d", "e", "r", " ">>
Label_Document_Type == <<"D", "o", "c", "u", "m", "e", "n", "t", " ", "T", "y", "p", "e">>
Key_document_type == <<"d", "o", "c", "u", "m", "e", "n", "t", "_", "t", "y", "p", "e">>
Key_director_officer_name_1 == <<"d", "i", "r", "e", "c", "t", "o", "r", "_", "o", "f", "f", "i", "c", "e", "r", "_", "n", "a", "m", "e", "_", "1">>
Doc_GIS_X == JObj(<< <<Key_document_type, JStr(<<"G", "I", "S">>)>>,
                     <<Key_director_officer_name_1, JStr(<<"X">>)>> >>)

\* the sub-fields of one slot: the label is there and holds the cleaned
\* value of stem_N, "" when the document has no such key
SlotRead(prefix, fields, i) ==
    \A f \in 1..Len(fields) :
        LET label == prefix \o str_int(i) \o fields[f][1]
            key == fields[f][2] \o str_int(i)
        IN  /\ RefHasKey(result.v, label)
            /\ RefSourceKeys(label) = {key}
            /\ ~RefHasKey(RefGisData, key) => RefGisValue(label) = << >>
            /\ RefHasKey(RefGisData, key) /\ RefValueAt(RefGisData, key).t = "str"
                   /\ str_lower(RefValueAt(RefGisData, key).v) # <<"n", "u", "l", "l">>
               => RefGisValue(label) = RefValueAt(RefGisData, key).v

\* C19: map_sec_gis_fields returns the same labels in the same order for
\* every input object, among them the 10 sub-fields of each Director/Officer
\* slot 1..20 and the 8 sub-fields of each Stockholder slot 1..10, each read
\* from the key stem_N; a label whose source keys are all absent holds "".
\* For {"document_type": "GIS", "director_officer_name_1": "X"} the output
\* has "Document Type" = "GIS", "Director/Officer 1 Name" = "X" and
\* "Director/Officer 2 Name" = "".
C19_FixedCatalog ==
    GisReturned =>
        /\ dict_keys(result.v) = RefGisLabels
        /\ Len(director_officer_fields) = 10
        /\ Len(stockholder_fields) = 8
        /\ \A i \in 1..20 : SlotRead(Text_Director_Officer, director_officer_fields, i)
        /\ \A i \in 1..10 : SlotRead(Text_Stockholder, stockholder_fields, i)
        /\ \A n \in 1..Len(result.v) :
               (\A key \in RefSourceKeys(result.v[n][1]) : ~RefHasKey(RefGisData, key))
                   => result.v[n][2] = JStr(<< >>)
        /\ json_data = Doc_GIS_X =>
               /\ RefGisValue(Label_Document_Type) = <<"G", "I", "S">>
               /\ RefGisValue(Text_Director_Officer \o <<"1", " ", "N", "a", "m", "e">>) = <<"X">>
               /\ RefGisValue(Text_Director_Officer \o <<"2", " ", "N", "a", "m", "e">>) = << >>

\* the documented input and its three values
C19_Witness ==
    /\ GisReturned
    /\ json_data = Doc_GIS_X
    /\ Len(result.v) = Len(RefGisLabels)
    /\ RefGisValue(Label_Document_Type) = <<"G", "I", "S">>
    /\ RefGisValue(Text_Director_Officer \o <<"1", " ", "N", "a", "m", "e">>) = <<"X">>
    /\ RefGisValue(Text_Director_Officer \o <<"2", " ", "N", "a", "m", "e">>) = << >>
    /\ RefGisValue(Text_Director_Officer \o <<"2", "0", " ", "T", "I", "N">>) = << >>


\* the raw value the last assignment of a label reads: data.get(key, "")
RefGisRaw(label) ==
    IF RefHasKey(RefGisData, RefLastKey(label))
    THEN RefValueAt(RefGisData, RefLastKey(label))
    ELSE JStr(<< >>)

\* the texts "null", "NULL", "Null", ... : "null" in any letter case
RefIsNullText(s) ==
    /\ Len(s) = 4
    /\ s[1] \in {"n", "N"} /\ s[2] \in {"u", "U"} /\ s[3] \in {"l", "L"} /\ s[4] \in {"l", "L"}

\* the string form of a scalar: the text itself, the decimal digits of an
\* integer, True or False
RefStringForm(value) ==
    CASE value.t = "str" -> value.v
      [] value.t = "num" -> py_str(value)
      [] value.t = "bool" -> IF value.v THEN <<"T", "r", "u", "e">> ELSE <<"F", "a", "l", "s", "e">>
      [] value.t \in {"arr", "obj"} -> py_repr(value)

\* C20: in the output of map_sec_gis_fields every value is a string; a source
\* value that is null, or whose string form is "null" in any letter case,
\* becomes ""; every other source value appears as its string form (not
\* trimmed).  normalize_value, which compare_with_ground_truth applies to
\* the same values, keeps the texts "null", "NULL", "Null" as they are.
C20_NullLikeBecomesEmpty ==
    GisReturned =>
        \A n \in 1..Len(result.v) :
            LET raw == RefGisRaw(result.v[n][1])
                out == result.v[n][2]
            IN  /\ out.t = "str"
                /\ raw.t = "null" => out.v = << >>
                /\ raw.t # "null" /\ RefIsNullText(RefStringForm(raw))
                       => /\ out.v = << >>
                          /\ normalize_value(raw) = RefStringForm(raw)
                          /\ normalize_value(raw) # << >>
                /\ raw.t # "null" /\ ~RefIsNullText(RefStringForm(raw))
                       => out.v = RefStringForm(raw)

Label_Total_Assets == <<"T", "o", "t", "a", "l", " ", "A", "s", "s", "e", "t", "s", " ", "(", "L", "a", "t", "e", "s", "t", " ", "A", "u", "d", "i", "t", "e", "d", " ", "F", "S", ")">>

\* a number and the text "NULL": the first appears as "7", the second as ""
C20_Witness ==
    /\ GisReturned
    /\ json_data = JObj(<<GisSampleItems[4], GisSampleItems[6]>>)
    /\ GisSampleItems[4][2] = JNum(7)
    /\ GisSampleItems[6][2] = JStr(<<"N", "U", "L", "L">>)
    /\ RefGisValue(Text_Stockholder \o <<"1", "0", " ", "T", "I", "N">>) = <<"7">>
    /\ RefLastKey(Label_Total_Assets) = GisSampleItems[6][1]
    /\ RefGisValue(Label_Total_Assets) = << >>


\* the argument is a dict, or a text that decodes to one
RefGisInputIsObject ==
    \/ json_data.t = "obj"
    \/ json_data.t = "str" /\ json_loads(json_data.v).ok /\ json_loads(json_data.v).val.t = "obj"

\* C21 as stated: map_sec_gis_fields has no failure path, every call returns
\* the complete catalog mapping and none raises.
C21_Original_NeverRaises ==
    pc = "done" =>
        /\ raised = ""
        /\ result.t = "obj"
        /\ dict_keys(result.v) = RefGisLabels

\* C21: for every input that is a dict (or a text that decodes to one),
\* whatever keys are absent and whatever the types of the values, the call
\* returns the complete catalog mapping and does not raise; a text that is
\* no JSON raises ValueError and a value or decoded text that is no dict
\* raises AttributeError, and then nothing is returned.
C21_RaisesOnlyForNonObjects ==
    pc = "done" =>
        /\ RefGisInputIsObject =>
               /\ raised = ""
               /\ result.t = "obj"
               /\ dict_keys(result.v) = RefGisLabels
               /\ \A n \in 1..Len(result.v) : result.v[n][2].t = "str"
        /\ json_data.t = "str" /\ ~json_loads(json_data.v).ok =>
               raised = "ValueError" /\ result = NoResult
        /\ ~RefGisInputIsObject /\ (json_data.t = "str" => json_loads(json_data.v).ok) =>
               raised = "AttributeError" /\ result = NoResult

\* a document with a list and a dict as values and every other key absent
C21_Witness ==
    /\ GisReturned
    /\ json_data = JObj(<<GisSampleItems[14], GisSampleItems[15]>>)
    /\ GisSampleItems[14][2].t = "arr"
    /\ GisSampleItems[15][2].t = "obj"
    /\ Len(result.v) = Len(RefGisLabels)
    /\ RefGisValue(<<"U", "B", "O", "_", "A", "d", "d", "r", "e", "s", "s">>)
           = <<"[", "1", ",", " ", "'", "a", "'", ",", " ", "N", "o", "n", "e", ",", " ", "T", "r", "u", "e", "]">>
    /\ RefGisValue(<<"U", "B", "O", "_", "T", "y", "p", "e">>)
           = <<"{", "'", "k", "'", ":", " ", "1", "}">>


(***************************************************************************)
(* create_comparison_summary (gisv2_app.py:693-713).  comparison_df is the *)
(* sequence of its rows; the summary is a dict, the accuracy a fraction    *)
(* [num, den] (the quotient the float division rounds).                    *)
(***************************************************************************)
\* len(comparison_df[comparison_df['Status'] == status])
count_status(rows, status) == Cardinality({i \in 1..Len(rows) : rows[i].Status = status})

\* Mutant of create_comparison_summary: only the perfect matches count as accurate.
create_comparison_summary_PerfectOnly(rows) ==
    IF Len(rows) = 0 THEN << >>
    ELSE LET total_fields == Len(rows)
             perfect_matches == count_status(rows, "Perfect Match")
         IN  << <<"total_fields", total_fields>>,
                <<"perfect_matches", perfect_matches>>,
                <<"very_close", count_status(rows, "Very Close")>>,
                <<"similar", count_status(rows, "Similar")>>,
                <<"missing", count_status(rows, "Missing in JSON")>>,
                <<"mismatches", count_status(rows, "Mismatch")>>,
                <<"accuracy_percentage", Ratio(perfect_matches * 100, total_fields)>> >>

create_comparison_summary(rows) ==
    IF Len(rows) = 0 THEN << >>
    ELSE LET total_fields == Len(rows)
             perfect_matches == count_status(rows, "Perfect Match")
             very_close == count_status(rows, "Very Close")
             similar == count_status(rows, "Similar")
             missing == count_status(rows, "Missing in JSON")
             mismatches == count_status(rows, "Mismatch")
         IN  << <<"total_fields", total_fields>>,
                <<"perfect_matches", perfect_matches>>,
                <<"very_close", very_close>>,
                <<"similar", similar>>,
                <<"missing", missing>>,
                <<"mismatches", mismatches>>,
                <<"accuracy_percentage",
                  IF total_fields > 0
                  THEN Ratio((perfect_matches + very_close) * 100, total_fields)
                  ELSE Ratio(0, 1)>> >>

(***************************************************************************)
(* Calls of create_comparison_summary: every table of at most              *)
(* MaxSummaryRows rows over the five statuses.                             *)
(***************************************************************************)
Statuses == {"Perfect Match", "Very Close", "Similar", "Missing in JSON", "Mismatch"}

SummaryRow(status) ==
    [Field |-> <<"f">>, JSON_Value |-> << >>, Ground_Truth |-> << >>,
     Status |-> status, Similarity_Score |-> << >>]

SummaryTables ==
    UNION {[1..n -> {SummaryRow(s) : s \in Statuses}] : n \in 0..MaxSummaryRows}

InitSummary ==
    /\ pc = "start"
    /\ json_data = JNull
    /\ result = NoResult
    /\ prev_result = NoResult
    /\ raised = ""
    /\ calls = 0
    /\ field_name = << >>
    /\ flattened_data = << >>
    /\ ground_truth_df = << >>
    /\ row_index = 0
    /\ field_counters = << >>
    /\ comparison_results \in SummaryTables
    /\ st_errors = << >>

Summarize ==
    /\ pc = "start"
    /\ result' = [t |-> "dict", v |-> create_comparison_summary(comparison_results)]
    /\ pc' = "done"
    /\ UNCHANGED <<json_data, prev_result, raised, calls, reconcile_vars>>

NextSummary == Summarize

SpecSummary == InitSummary /\ [][NextSummary]_vars

\* the rows with a status
RefRowsWith(status) == {i \in 1..Len(comparison_results) : comparison_results[i].Status = status}

\* the accuracy is the fraction (perfect + very close) / total as a percentage
RefAccuracyIs(acc) ==
    acc.num * Len(comparison_results)
        = 100 * acc.den * Cardinality(RefRowsWith("Perfect Match") \cup RefRowsWith("Very Close"))

\* C22 as stated: for every table, the empty one included, the summary
\* reports accuracy = (Perfect Match + Very Close rows) / total rows as a
\* percentage, 100.0 when every row is Perfect Match.
C22_Original_AccuracyOfEveryTable ==
    pc = "done" =>
        /\ RefHasKey(result.v, "accuracy_percentage")
        /\ RefAccuracyIs(RefValueAt(result.v, "accuracy_percentage"))
        /\ RefRowsWith("Perfect Match") = 1..Len(comparison_results)
               => RefValueAt(result.v, "accuracy_percentage").num
                      = 100 * RefValueAt(result.v, "accuracy_percentage").den

\* C22: for every table with at least one row the summary reports accuracy
\* = (Perfect Match + Very Close rows) / total rows as a percentage, 100 when
\* every row is Perfect Match; for the empty table the summary is the empty
\* dict and reports no accuracy.
C22_AccuracyOfNonEmptyTable ==
    pc = "done" =>
        /\ Len(comparison_results) = 0 => result.v = << >>
        /\ Len(comparison_results) > 0 =>
               /\ RefHasKey(result.v, "accuracy_percentage")
               /\ RefValueAt(result.v, "accuracy_percentage").den > 0
               /\ RefAccuracyIs(RefValueAt(result.v, "accuracy_percentage"))
               /\ RefValueAt(result.v, "total_fields") = Len(comparison_results)
               /\ RefRowsWith("Perfect Match") = 1..Len(comparison_results)
                      => RefValueAt(result.v, "accuracy_percentage").num
                             = 100 * RefValueAt(result.v, "accuracy_percentage").den

\* a Perfect Match, a Very Close and a Mismatch row: accuracy 200/3 percent
C22_Witness ==
    /\ pc = "done"
    /\ Len(comparison_results) = 3
    /\ comparison_results[1].Status = "Perfect Match"
    /\ comparison_results[2].Status = "Very Close"
    /\ comparison_results[3].Status = "Mismatch"
    /\ RefValueAt(result.v, "accuracy_percentage") = Ratio(200, 3)


(***************************************************************************)
(* Successive calls of compare_with_ground_truth in one process: when a    *)
(* call has returned, the next is made with any inputs.  The locals of the *)
(* call before (field_counters, comparison_results) keep their last value  *)
(* until the new call assigns them.                                        *)
(***************************************************************************)
RepeatFlat == SubSeq(RepeatableFlat, 1, 2)

RepeatTables ==
    Tables(TwoColumns, {JStr(Label_Stockholder_Name), JStr(<<" ">>)}, {JStr(Text_Alice)}, MaxRows)
        \cup {[columns |-> <<"Value">>, rows |-> << >>],
              [columns |-> <<"Field">>, rows |-> << >>],
              [columns |-> TwoColumns, rows |-> <<MakeRow(TwoColumns, JNum(7), JStr(Text_Alice))>>]}

InitRepeat ==
    /\ pc = "start"
    /\ json_data = JNull
    /\ result = NoResult
    /\ prev_result = NoResult
    /\ raised = ""
    /\ calls = 0
    /\ field_name = << >>
    /\ flattened_data \in SubMaps(RepeatFlat)
    /\ ground_truth_df \in RepeatTables
    /\ row_index = 0
    /\ field_counters = << >>
    /\ comparison_results = << >>
    /\ st_errors = << >>

\* the caller keeps the table returned and calls again
CompareAgain ==
    /\ pc = "done"
    /\ calls + 1 < MaxCalls
    /\ calls' = calls + 1
    /\ prev_result' = result
    /\ result' = NoResult
    /\ raised' = ""
    /\ st_errors' = << >>
    /\ flattened_data' \in SubMaps(RepeatFlat)
    /\ ground_truth_df' \in RepeatTables
    /\ pc' = "start"
    /\ UNCHANGED <<json_data, field_name, row_index, field_counters, comparison_results>>

NextRepeat ==
    \/ NextReconcile
    \/ CompareAgain

SpecRepeat == InitRepeat /\ [][NextRepeat]_vars

\* the rows a first call on (flattened_data, ground_truth_df) returns: one per
\* non-blank label, the n-th occurrence of a label counted n
RefFirstCallRows ==
    LET counted == RefCountedRows(Len(ground_truth_df.rows))
        labels == [k \in 1..Len(counted) |-> ground_truth_df.rows[counted[k]]["Field"].v]
    IN  [k \in 1..Len(counted) |->
            comparison_row(labels[k], OccurrenceOf(labels, k),
                           normalize_cell(ground_truth_df.rows[counted[k]][truth_col]),
                           flattened_data)]

\* a call that returned its table
ReturnedTable ==
    /\ pc = "done"
    /\ raised = ""
    /\ ~RefBadLayout

\* C23: the occurrence counter is local to one call of
\* compare_with_ground_truth: after any earlier calls with any inputs, a call
\* on (F, G) returns the rows of a first call on (F, G), the first
\* occurrence of a label is counted 1 again, and no step of the call changes
\* F or G.
C23_CounterLocalToCall ==
    /\ [](ReturnedTable =>
              /\ result = DataFrame(RefFirstCallRows)
              /\ \A i \in 1..Len(field_counters) :
                     field_counters[i][2] = RefCount(field_counters[i][1])
              /\ Len(result.v) > 0 => result.v[1].Field = EmittedLabels[1])
    /\ [][pc # "done" => UNCHANGED <<flattened_data, ground_truth_df>>]_vars

\* a call that counted a label to 2 is followed by a call on a table with
\* the same label twice: the rows are again those of slots 1 and 2
C23_Witness ==
    /\ pc = "done"
    /\ calls = 1
    /\ prev_result.t = "DataFrame"
    /\ Len(prev_result.v) = 2
    /\ prev_result.v[2].Field = Label_Stockholder_Name \o <<" ", "(", "2", ")">>
    /\ Len(flattened_data) = 2
    /\ result.t = "DataFrame"
    /\ Len(result.v) = 2
    /\ result.v[1].Field = Label_Stockholder_Name
    /\ result.v[1].JSON_Value = Text_Alice
    /\ result.v[2].Field = Label_Stockholder_Name \o <<" ", "(", "2", ")">>
    /\ result.v[2].JSON_Value = Text_Bob


\* a label with the plain lookup: no single entry, no repeatable prefix, no
\* empty override
RefPlainLookup(name) ==
    /\ ~RefSingleEntry(name)
    /\ ~RefRepeatable(name)
    /\ RefOverride(name) # << >> \/ \A i \in 1..Len(field_mappings_items) :
                                        field_mappings_items[i][1] # name

\* the emitted rows of the first and of a later occurrence of one label
RefLaterOccurrence(j, k) ==
    /\ j < k
    /\ k <= Len(comparison_results)
    /\ EmittedLabels[j] = EmittedLabels[k]
    /\ OccurrenceOf(EmittedLabels, j) = 1

\* C24: a label that is no single entry, has no repeatable prefix and no
\* empty override resolves on its second and later occurrences to the JSON
\* value of its first occurrence; the Field of the later row is the label
\* followed by " (N)", the Field of the first is the bare label.
C24_LaterOccurrenceSameValue ==
    \A j, k \in 1..Len(comparison_results) :
        RefLaterOccurrence(j, k) /\ RefPlainLookup(EmittedLabels[k]) =>
            /\ comparison_results[k].JSON_Value = comparison_results[j].JSON_Value
            /\ comparison_results[j].Field = EmittedLabels[j]
            /\ comparison_results[k].Field =
                   EmittedLabels[k] \o <<" ", "(">>
                       \o str_int(OccurrenceOf(EmittedLabels, k)) \o <<")">>

\* "Tax Code" twice against a map whose key taxcode holds "T": both rows
\* resolve to "T", the second is shown as "Tax Code (2)"
C24_Witness ==
    /\ pc = "done"
    /\ Len(comparison_results) = 2
    /\ EmittedLabels = <<Label_Tax_Code, Label_Tax_Code>>
    /\ RefPlainLookup(Label_Tax_Code)
    /\ comparison_results[1].JSON_Value = <<"T">>
    /\ comparison_results[2].JSON_Value = <<"T">>
    /\ comparison_results[2].Field = Label_Tax_Code \o <<" ", "(", "2", ")">>


\* the candidate keys of the k-th emitted row
RefKeysOfRow(k) == possible_keys(EmittedLabels[k], OccurrenceOf(EmittedLabels, k))

\* the lookup runs for the k-th emitted row: it is no repeat of a single-entry
\* label and its label has no empty override
RefLookupRuns(k) ==
    /\ ~(RefSingleEntry(EmittedLabels[k]) /\ OccurrenceOf(EmittedLabels, k) > 1)
    /\ RefOverride(EmittedLabels[k]) # << >>
           \/ \A i \in 1..Len(field_mappings_items) : field_mappings_items[i][1] # EmittedLabels[k]

\* the positions in a candidate list whose key the flat map holds
RefPresentCandidates(keys) == {i \in 1..Len(keys) : RefHasKey(flattened_data, keys[i])}

\* the value stored under the first present candidate of a list, None if
\* there is none
RefFirstPresentValue(keys) ==
    LET present == RefPresentCandidates(keys)
    IN  IF present = {} THEN NoResult ELSE RefValueAt(flattened_data, keys[SetMin(present)])

\* C25: the lookup stops at the first candidate key the flat map holds: when
\* that key stores null the resolved value is "", even when a later
\* candidate is present with a non-empty value; when it stores a text the
\* resolved value is that text trimmed; when no candidate is present the
\* resolved value is "".
C25_FirstPresentCandidateDecides ==
    \A k \in 1..Len(comparison_results) :
        RefLookupRuns(k) =>
            LET first_value == RefFirstPresentValue(RefKeysOfRow(k))
            IN  /\ first_value = NoResult => comparison_results[k].JSON_Value = << >>
                /\ first_value.t = "null" => comparison_results[k].JSON_Value = << >>
                /\ first_value.t = "str"
                       => comparison_results[k].JSON_Value = RefTrim(first_value.v)

\* "Tax Code" against a map with tax_code: null and taxcode: "T": the row
\* resolves to "", not to "T"
C25_Witness ==
    /\ pc = "done"
    /\ Len(comparison_results) >= 1
    /\ EmittedLabels[1] = Label_Tax_Code
    /\ RefLookupRuns(1)
    /\ Cardinality(RefPresentCandidates(RefKeysOfRow(1))) >= 2
    /\ RefHasKey(flattened_data, <<"t", "a", "x", "_", "c", "o", "d", "e">>)
    /\ RefValueAt(flattened_data, <<"t", "a", "x", "_", "c", "o", "d", "e">>) = JNull
    /\ RefHasKey(flattened_data, <<"t", "a", "x", "c", "o", "d", "e">>)
    /\ RefValueAt(flattened_data, <<"t", "a", "x", "c", "o", "d", "e">>) = JStr(<<"T">>)
    /\ comparison_results[1].JSON_Value = << >>

\* "Tax Code" against a map holding none of its candidate keys
C25_WitnessNoCandidate ==
    /\ pc = "done"
    /\ Len(comparison_results) >= 1
    /\ EmittedLabels[1] = Label_Tax_Code
    /\ RefLookupRuns(1)
    /\ RefPresentCandidates(RefKeysOfRow(1)) = {}
    /\ Len(flattened_data) >= 1
    /\ comparison_results[1].JSON_Value = << >>


Label_Subscribed_From_Stockholders == <<"S", "u", "b", "s", "c", "r", "i", "b", "e", "d", " ", "C", "a", "p", "i", "t", "a", "l", "_", "T", "o", "t", "a", "l", " ", "(", "P", "H", "P", ")", " ", "(", "f", "r", "o", "m", " ", "S", "t", "o", "c", "k", "h", "o", "l", "d", "e", "r", " ", "d", "e", "t", "a", "i", "l", " ", "p", "a", "g", "e", "s", ")">>
Label_Paid_Up_From_Stockholders == <<"P", "a", "i", "d", "-", "U", "p", " ", "C", "a", "p", "i", "t", "a", "l", "_", "T", "o", "t", "a", "l", " ", "(", "P", "H", "P", ")", " ", "(", "f", "r", "o", "m", " ", "S", "t", "o", "c", "k", "h", "o", "l", "d", "e", "r", " ", "d", "e", "t", "a", "i", "l", " ", "p", "a", "g", "e", "s", ")">>
Key_subscribed_capital_total_from_stockholders == <<"s", "u", "b", "s", "c", "r", "i", "b", "e", "d", "_", "c", "a", "p", "i", "t", "a", "l", "_", "t", "o", "t", "a", "l", "_", "f", "r", "o", "m", "_", "s", "t", "o", "c", "k", "h", "o", "l", "d", "e", "r", "s">>
Key_paid_up_capital_total_from_stockholders == <<"p", "a", "i", "d", "_", "u", "p", "_", "c", "a", "p", "i", "t", "a", "l", "_", "t", "o", "t", "a", "l", "_", "f", "r", "o", "m", "_", "s", "t", "o", "c", "k", "h", "o", "l", "d", "e", "r", "s">>
Key_filipino_subscribed_capital_amount_php_1 == <<"f", "i", "l", "i", "p", "i", "n", "o", "_", "s", "u", "b", "s", "c", "r", "i", "b", "e", "d", "_", "c", "a", "p", "i", "t", "a", "l", "_", "a", "m", "o", "u", "n", "t", "_", "p", "h", "p", "_", "1">>
Key_filipino_paid_up_capital_amount_php_1 == <<"f", "i", "l", "i", "p", "i", "n", "o", "_", "p", "a", "i", "d", "_", "u", "p", "_", "c", "a", "p", "i", "t", "a", "l", "_", "a", "m", "o", "u", "n", "t", "_", "p", "h", "p", "_", "1">>

\* the labels the catalog assigns more than once
RefDuplicateLabels ==
    {gis_catalog[n][1] : n \in {m \in 1..Len(gis_catalog) :
                                   \E k \in 1..(m - 1) : gis_catalog[k][1] = gis_catalog[m][1]}}

\* the key of the last assignment of each label, in the order of the labels
RefLastKeysInOrder == [n \in 1..Len(RefGisLabels) |-> RefLastKey(RefGisLabels[n])]

\* the cleaned text of a raw value: "" for null and for "null" in any letter
\* case, else its string form
RefCleaned(raw) ==
    IF raw.t = "null" THEN << >>
    ELSE IF RefIsNullText(RefStringForm(raw)) THEN << >>
    ELSE RefStringForm(raw)

\* the cleaned text the document holds under a key, "" when it has no such key
RefCleanedAt(key) ==
    IF RefHasKey(RefGisData, key) THEN RefCleaned(RefValueAt(RefGisData, key)) ELSE << >>

\* C26: a label the catalog assigns more than once is in the output once,
\* with the value of its last assignment: the two "(from Stockholder detail
\* pages)" totals carry the values of filipino_subscribed_capital_amount_php_1
\* and filipino_paid_up_capital_amount_php_1, and no output value is read
\* from subscribed_capital_total_from_stockholders or
\* paid_up_capital_total_from_stockholders.
C26_LastAssignmentWins ==
    GisReturned =>
        /\ RefDuplicateLabels =
               {Label_Subscribed_From_Stockholders, Label_Paid_Up_From_Stockholders}
        /\ Cardinality({result.v[n][1] : n \in 1..Len(result.v)}) = Len(result.v)
        /\ Len(result.v) = Len(RefGisLabels)
        /\ RefGisValue(Label_Subscribed_From_Stockholders)
               = RefCleanedAt(Key_filipino_subscribed_capital_amount_php_1)
        /\ RefGisValue(Label_Paid_Up_From_Stockholders)
               = RefCleanedAt(Key_filipino_paid_up_capital_amount_php_1)
        /\ \A n \in 1..Len(result.v) :
               /\ result.v[n][1] = RefGisLabels[n]
               /\ RefLastKeysInOrder[n] \notin
                      {Key_subscribed_capital_total_from_stockholders,
                       Key_paid_up_capital_total_from_stockholders}
               /\ result.v[n][2].v = RefCleanedAt(RefLastKeysInOrder[n])

\* a document holding both keys the subscribed total is assigned from: the
\* label carries "F", the value of the second assignment, and "S" is nowhere
C26_Witness ==
    /\ GisReturned
    /\ RefGisData = << <<Key_subscribed_capital_total_from_stockholders, JStr(<<"S">>)>>,
                       <<Key_filipino_subscribed_capital_amount_php_1, JStr(<<"F">>)>> >>
    /\ RefGisValue(Label_Subscribed_From_Stockholders) = <<"F">>
    /\ \A n \in 1..Len(result.v) : result.v[n][2].v # <<"S">>

\* a document holding both keys the paid-up total is assigned from
C26_WitnessPaidUp ==
    /\ GisReturned
    /\ RefGisData = << <<Key_paid_up_capital_total_from_stockholders, JStr(<<"P">>)>>,
                       <<Key_filipino_paid_up_capital_amount_php_1, JStr(<<"Q">>)>> >>
    /\ RefGisValue(Label_Paid_Up_From_Stockholders) = <<"Q">>


(***************************************************************************)
(* test_field_mappings.py: the expected JSON field of seven labels and the *)
(* check the script makes on the candidates of create_field_transforms.    *)
(***************************************************************************)
\* lines 52-60
expected_mappings ==
    << <<<<"C", "o", "v", "e", "r", "e", "d", " ", "P", "e", "r", "s", "o", "n", " ", "(", "A", "M", "L", ")">>,
         <<"c", "o", "v", "e", "r", "e", "d", "_", "p", "e", "r", "s", "o", "n", "_", "a", "m", "l">>>>,
       <<<<"N", "u", "m", "b", "e", "r", " ", "o", "f", " ", "S", "t", "o", "c", "k", "h", "o", "l", "d", "e", "r", "s", " ", "w", "i", "t", "h", " ", GreaterEqualSign, "1", "0", "0", " ", "s", "h", "a", "r", "e", "s">>,
         <<"n", "u", "m", "b", "e", "r", "_", "s", "t", "o", "c", "k", "h", "o", "l", "d", "e", "r", "s", "_", "1", "0", "0", "_", "p", "l", "u", "s", "_", "s", "h", "a", "r", "e", "s">>>>,
       <<<<"D", "i", "r", "e", "c", "t", "o", "r", "/", "O", "f", "f", "i", "c", "e", "r", "_", "N", "a", "m", "e">>,
         <<"d", "i", "r", "e", "c", "t", "o", "r", "_", "o", "f", "f", "i", "c", "e", "r", "_", "n", "a", "m", "e", "_", "1">>>>,
       <<<<"S", "t", "o", "c", "k", "h", "o", "l", "d", "e", "r", "_", "T", "o", "t", "a", "l", " ", "S", "h", "a", "r", "e", "s", " ", "S", "u", "b", "s", "c", "r", "i", "b", "e", "d", "_", "A", "m", "o", "u", "n", "t", " ", "(", "P", "H", "P", ")">>,
         <<"s", "t", "o", "c", "k", "h", "o", "l", "d", "e", "r", "_", "s", "h", "a", "r", "e", "s", "_", "s", "u", "b", "s", "c", "r", "i", "b", "e", "d", "_", "a", "m", "o", "u", "n", "t", "_", "1">>>>,
       <<<<"S", "E", "C", " ", "R", "e", "g", ".", " ", "N", "o", ".">>,
         <<"s", "e", "c", "_", "r", "e", "g", "i", "s", "t", "r", "a", "t", "i", "o", "n", "_", "n", "u", "m", "b", "e", "r">>>>,
       <<<<"B", "u", "s", "i", "n", "e", "s", "s", "/", "T", "r", "a", "d", "e", " ", "N", "a", "m", "e">>,
         <<"b", "u", "s", "i", "n", "e", "s", "s", "_", "t", "r", "a", "d", "e", "_", "n", "a", "m", "e">>>>,
       <<<<"U", "B", "O", "_", "N", "a", "m", "e">>,
         <<"u", "b", "o", "_", "n", "a", "m", "e", "_", "1">>>> >>

\* sub in s
str_contains(s, sub) ==
    \E i \in 0..(Len(s) - Len(sub)) : SubSeq(s, i + 1, i + Len(sub)) = sub

\* line 69: any(expected_json_field in transform or transform in expected_json_field ...)
match_found(transforms, expected_json_field) ==
    \E n \in 1..Len(transforms) :
        \/ str_contains(transforms[n], expected_json_field)
        \/ str_contains(expected_json_field, transforms[n])

\* the labels of expected_mappings whose candidates reach the expected field
RefReachedLabels ==
    {expected_mappings[1][1], expected_mappings[3][1],
     expected_mappings[6][1], expected_mappings[7][1]}

\* C27 as stated: for every label of expected_mappings at least one candidate
\* of create_field_transforms is a substring of the expected JSON field or
\* contains it.
C27_Original_EveryExpectedFieldReached ==
    \A n \in 1..Len(expected_mappings) :
        pc = "done" /\ field_name = expected_mappings[n][1]
            => match_found(result.v, expected_mappings[n][2])

\* the candidates reach the expected field for "Covered Person (AML)",
\* "Director/Officer_Name", "Business/Trade Name" and "UBO_Name" and for
\* none of the three other labels
C27_FourOfSevenReached ==
    \A n \in 1..Len(expected_mappings) :
        pc = "done" /\ field_name = expected_mappings[n][1]
            => (match_found(result.v, expected_mappings[n][2])
                    <=> field_name \in RefReachedLabels)

\* "SEC Reg. No.": none of its five candidates is in, or contains,
\* sec_registration_number
C27_SecRegNoNotReached ==
    /\ pc = "done"
    /\ field_name = Label_SEC_Reg_No
    /\ field_name = expected_mappings[5][1]
    /\ Len(result.v) = 5
    /\ result.v[2] = <<"s", "e", "c", "_", "r", "e", "g", "_", "n", "o">>
    /\ ~match_found(result.v, expected_mappings[5][2])


\* two texts that are the same text up to the case of their letters
RefSameUpToCase(a, b) ==
    /\ Len(a) = Len(b)
    /\ \A i \in 1..Len(a) : lower_char(a[i]) = lower_char(b[i])

ExactAndStemPresent(k) ==
    /\ ~RefRepeatable(EmittedLabels[k])
    /\ RefOverride(EmittedLabels[k]) # << >>
    /\ RefHasKey(flattened_data, EmittedLabels[k])
    /\ RefHasKey(flattened_data, RefOverride(EmittedLabels[k]))

\* the normalized value stored under the exact label of the k-th emitted row
ExactValue(k) == normalize_value(RefValueAt(flattened_data, EmittedLabels[k]))

\* C29 as stated: for a label under no repeatable prefix, whenever the exact
\* label and its override stem are both keys of the flat map, the resolved
\* value is the one stored under the exact label.
C29_Original_ExactLabelBeatsStem ==
    \A k \in 1..Len(comparison_results) :
        ExactAndStemPresent(k) => comparison_results[k].JSON_Value = ExactValue(k)

\* C29: for a label under no repeatable prefix, when the exact label and its
\* override stem are both keys of the flat map, the resolved value is the
\* (normalized) one stored under the exact label, unless the row is a repeat
\* of a single-entry label, whose resolved value is "".
C29_ExactLabelBeatsStemOnLookup ==
    \A k \in 1..Len(comparison_results) :
        ExactAndStemPresent(k) =>
            IF RefSingleEntry(EmittedLabels[k]) /\ OccurrenceOf(EmittedLabels, k) > 1
            THEN comparison_results[k].JSON_Value = << >>
            ELSE comparison_results[k].JSON_Value = ExactValue(k)

\* "Share Issuance_Date" against a map holding "Share Issuance_Date": "D2" and
\* share_issuance_date: "D1": the row resolves to "D2"
C29_Witness ==
    /\ pc = "done"
    /\ Len(comparison_results) >= 1
    /\ EmittedLabels[1] = Label_Share_Issuance_Date
    /\ ExactAndStemPresent(1)
    /\ ~RefSingleEntry(Label_Share_Issuance_Date)
    /\ RefValueAt(flattened_data, RefOverride(Label_Share_Issuance_Date)) = JStr(<<"D", "1">>)
    /\ comparison_results[1].JSON_Value = <<"D", "2">>

\* "Corporate Name" twice against a map holding both "Corporate Name" and
\* its stem: the second row resolves to ""
C29_WitnessSingleEntryRepeat ==
    /\ pc = "done"
    /\ Len(comparison_results) = 2
    /\ EmittedLabels = <<Label_Corporate_Name, Label_Corporate_Name>>
    /\ ExactAndStemPresent(2)
    /\ comparison_results[1].JSON_Value = <<"A", "c", "m", "e">>
    /\ comparison_results[2].JSON_Value = << >>


\* the number of scalar leaves and empty arrays of a document; an empty
\* object counts nothing
RECURSIVE RefLeafCount(_)
RECURSIVE RefLeafCountFrom(_, _)
RefLeafCountFrom(x, n) ==
    IF n > Len(x.v) THEN 0
    ELSE RefLeafCount(IF x.t = "obj" THEN x.v[n][2] ELSE x.v[n]) + RefLeafCountFrom(x, n + 1)

RefLeafCount(x) ==
    IF x.t \notin {"arr", "obj"} THEN 1
    ELSE IF x.t = "arr" /\ Len(x.v) = 0 THEN 1
    ELSE RefLeafCountFrom(x, 1)

\* the document has an empty object somewhere
RECURSIVE RefHasEmptyObject(_)
RefHasEmptyObject(x) ==
    /\ x.t \in {"arr", "obj"}
    /\ \/ x.t = "obj" /\ Len(x.v) = 0
       \/ \E n \in 1..Len(x.v) : RefHasEmptyObject(IF x.t = "obj" THEN x.v[n][2] ELSE x.v[n])

Doc_a_empty_object == JObj(<< << <<"a">>, JObj(<< >>)>> >>)

\* C30: an empty object contributes no entry at any path, an empty array
\* contributes "[]": flatten({}) and flatten({"a": {}}) are the empty map,
\* flatten({"a": []}) is {"a": "[]"}; every flat key is the path of a scalar
\* leaf or of an empty array, so the map has at most as many entries as the
\* document has scalar leaves and empty arrays.
C30_EmptyObjectLeavesNoEntry ==
    FlattenDone =>
        /\ Len(FlatPairs) <= RefLeafCount(FlattenedDoc)
        /\ Len(RefLeaves) = RefLeafCount(FlattenedDoc)
        /\ \A n \in 1..Len(FlatPairs) :
               \E m \in 1..Len(RefLeaves) : RefLeaves[m][1] = FlatPairs[n][1]
        /\ FlattenedDoc \in {JObj(<< >>), Doc_a_empty_object} => FlatPairs = << >>
        /\ FlattenedDoc = Doc_a_empty => FlatPairs = << <<<<"a">>, EmptyListText>> >>

\* {"a": {}} flattens to the empty map: the key a is in no flat key
C30_Witness ==
    /\ FlattenDone
    /\ json_data = Doc_a_empty_object
    /\ RefHasEmptyObject(FlattenedDoc)
    /\ RefLeafCount(FlattenedDoc) = 0
    /\ FlatPairs = << >>

\* an empty object next to a leaf, inside an array: only the leaf is kept
C30_WitnessNested ==
    /\ FlattenDone
    /\ FlattenedDoc.t = "obj"
    /\ RefHasEmptyObject(FlattenedDoc)
    /\ RefLeafCount(FlattenedDoc) = 1
    /\ Len(FlatPairs) = 1

=============================================================================
